---------------------------- MODULE Spec2Model ----------------------------
(***************************************************************************)
(* Metadata mapping engine of beets-vocadb: lyrics selection               *)
(* (lyrics_processor.py), genre aggregation (utils.py), artist             *)
(* categorisation (artists.py) and album/track reconciliation (mapper.py,  *)
(* and the older PluginABC of abc.py).                                     *)
(*                                                                         *)
(* Every mapping function is a pure computation over a deserialised        *)
(* record.  Each is modelled as an operator computed the way the code      *)
(* computes it (loops as recursion over the list index), and as an action  *)
(* that applies it to inputs drawn by Init.  Python's None is the value    *)
(* None below; a set-valued field that is None is the empty set, because   *)
(* the code only ever tests such a field for truthiness.                   *)
(***************************************************************************)
EXTENDS Integers, Sequences, FiniteSets, TLC

VARIABLES
    language_preference,  \* LyricsProcessor.language_preference
    remote_lyrics_list,   \* the lyric variants of one song
    lyrics_result,        \* the last lyrics call: its argument and what it returned
    remote_tags,          \* the tag usages of one album or song
    genres_result,        \* the last get_genres call: its argument and what it returned
    remote_artists,       \* the artist credits of one album or song
    artists_result,       \* the last get_album_artists / get_track_artists call
    ignore_video_tracks,  \* Mapper.ignore_video_tracks, match.ignore_video_tracks
    remote_album,         \* the tracks and discs of one album
    album_result,         \* the last album_info call: its argument and what it returned
    web_links,            \* the web links of one album
    asin_result,          \* the last ASIN extraction: its argument and what it returned
    lookup,               \* the id of one lookup and what the server will answer
    lookup_result         \* the last album_for_id / track_for_id call

lyrics_vars == <<language_preference, remote_lyrics_list, lyrics_result>>
genres_vars == <<remote_tags, genres_result>>
artists_vars == <<remote_artists, artists_result>>
album_vars == <<ignore_video_tracks, remote_album, album_result>>
links_vars == <<web_links, asin_result>>
lookup_vars == <<lookup, lookup_result>>
vars == <<lyrics_vars, genres_vars, artists_vars, album_vars, links_vars, lookup_vars>>

None == "None"

\* Python truthiness of an optional string
Truthy(s) == s # None /\ s # ""


(***************************************************************************)
(* Lyrics selector                                                         *)
(***************************************************************************)
ENGLISH == "English"
JAPANESE == "Japanese"
ROMAJI == "Romaji"
DEFAULT == "Default"
ContentLanguagePreference == {ENGLISH, JAPANESE, ROMAJI, DEFAULT}

ORIGINAL == "Original"
ROMANIZED == "Romanized"
TRANSLATION == "Translation"
TranslationType == {ORIGINAL, ROMANIZED, TRANSLATION}

MaxLyrics == 2
CultureCodeSets == {{""}, {"en"}, {"ja"}, {"en", "ja"}}
LyricsValues == {None, "lyrics1", "lyrics2"}

LyricsForSongContract ==
    [translation_type : TranslationType,
     culture_codes : CultureCodeSets,
     value : LyricsValues]

\* culture_codes &= {"en", "ja"}: an in-place intersection of the variant's set
IntersectCultureCodes(remote_lyrics) ==
    [remote_lyrics EXCEPT !.culture_codes = @ \cap {"en", "ja"}]

\* LyricsStep with the script/language assignment moved under the preference test
LyricsStep_ScriptUnderPreference(acc, remote_lyrics, pref) ==
    LET original == remote_lyrics.translation_type = ORIGINAL
        value == remote_lyrics.value
        culture_codes == remote_lyrics.culture_codes \cap {"en", "ja"}
    IN  IF culture_codes = {}
        THEN IF pref = ROMAJI /\ remote_lyrics.translation_type = ROMANIZED
             THEN [acc EXCEPT !.lyrics = value]
             ELSE acc
        ELSE IF "en" \in culture_codes
        THEN IF pref # ENGLISH THEN acc
             ELSE IF original
             THEN [acc EXCEPT !.script = "Latn", !.language = "eng", !.lyrics = value]
             ELSE [acc EXCEPT !.lyrics = value]
        ELSE IF pref # JAPANESE THEN acc
             ELSE IF original
             THEN [acc EXCEPT !.script = "Jpan", !.language = "jpn", !.lyrics = value]
             ELSE [acc EXCEPT !.lyrics = value]

\* one iteration of the loop of get_lyrics; acc holds script, language, lyrics
LyricsStep(acc, remote_lyrics, pref) ==
    LET remote_translation_type == remote_lyrics.translation_type
        value == remote_lyrics.value
        culture_codes == IntersectCultureCodes(remote_lyrics).culture_codes
    IN  IF culture_codes = {}
        THEN IF pref = ROMAJI /\ remote_translation_type = ROMANIZED
             THEN [acc EXCEPT !.lyrics = value]
             ELSE acc
        ELSE IF "en" \in culture_codes
        THEN LET a == IF remote_translation_type = ORIGINAL
                      THEN [acc EXCEPT !.script = "Latn", !.language = "eng"]
                      ELSE acc
             IN  IF pref = ENGLISH THEN [a EXCEPT !.lyrics = value] ELSE a
        ELSE IF "ja" \in culture_codes
        THEN LET a == IF remote_translation_type = ORIGINAL
                      THEN [acc EXCEPT !.script = "Jpan", !.language = "jpn"]
                      ELSE acc
             IN  IF pref = JAPANESE THEN [a EXCEPT !.lyrics = value] ELSE a
        ELSE acc

\* LyricsLoop that stops at the first variant that sets the text
RECURSIVE LyricsLoop_FirstMatchWins(_, _, _, _)
LyricsLoop_FirstMatchWins(list, i, acc, pref) ==
    IF i > Len(list) THEN acc
    ELSE LET a == LyricsStep(acc, list[i], pref)
         IN  LyricsLoop_FirstMatchWins(list, i + 1,
                 IF Truthy(acc.lyrics) THEN [a EXCEPT !.lyrics = acc.lyrics] ELSE a,
                 pref)

RECURSIVE LyricsLoop(_, _, _, _)
LyricsLoop(list, i, acc, pref) ==
    IF i > Len(list) THEN acc
    ELSE LyricsLoop(list, i + 1, LyricsStep(acc, list[i], pref), pref)

\* for remote_lyrics in remote_lyrics_list: if culture_codes and "en" in
\* culture_codes: return remote_lyrics.value
RECURSIVE FirstEn(_, _)
FirstEn(list, i) ==
    IF i > Len(list) THEN [found |-> FALSE, value |-> None]
    ELSE IF "en" \in list[i].culture_codes
    THEN [found |-> TRUE, value |-> list[i].value]
    ELSE FirstEn(list, i + 1)

\* for remote_lyrics in remote_lyrics_list: if translation_type == type: return value
RECURSIVE FirstOfType(_, _, _)
FirstOfType(list, i, type) ==
    IF i > Len(list) THEN [found |-> FALSE, value |-> None]
    ELSE IF list[i].translation_type = type
    THEN [found |-> TRUE, value |-> list[i].value]
    ELSE FirstOfType(list, i + 1, type)

\* return remote_lyrics_list[0].value if remote_lyrics_list else None
FallbackFirst(list) == IF list # <<>> THEN list[1].value ELSE None

\* the branches of _get_fallback_lyrics from "if ROMAJI" on, for the preference
\* the ENGLISH branch may have replaced
FallbackFrom(list, pref) ==
    IF pref = ROMAJI /\ FirstOfType(list, 1, ROMANIZED).found
    THEN FirstOfType(list, 1, ROMANIZED).value
    ELSE IF pref = DEFAULT /\ FirstOfType(list, 1, ORIGINAL).found
    THEN FirstOfType(list, 1, ORIGINAL).value
    ELSE FallbackFirst(list)

\* get_fallback_lyrics without "language_preference = ROMAJI" after the English loop
get_fallback_lyrics_NoRomajiChain(list, pref) ==
    IF pref = ENGLISH /\ FirstEn(list, 1).found
    THEN FirstEn(list, 1).value
    ELSE FallbackFrom(list, pref)

get_fallback_lyrics(list, pref) ==
    IF pref = ENGLISH
    THEN IF FirstEn(list, 1).found
         THEN FirstEn(list, 1).value
         ELSE FallbackFrom(list, ROMAJI)
    ELSE FallbackFrom(list, pref)

\* the list as get_lyrics leaves it: every variant's code set intersected in place
LyricsListAfter(list) == [i \in 1..Len(list) |-> IntersectCultureCodes(list[i])]

get_lyrics(list, pref) ==
    LET start == [script |-> None, language |-> None, lyrics |-> None]
    IN  IF list = <<>> THEN start
        ELSE LET r == LyricsLoop(list, 1, start, pref)
             IN  IF ~Truthy(r.lyrics)
                 THEN [r EXCEPT !.lyrics = get_fallback_lyrics(LyricsListAfter(list), pref)]
                 ELSE r

(***************************************************************************)
(* Genre aggregator.  A string is a sequence of characters, so that        *)
(* str.title() and "; ".join() are computed and not assumed.               *)
(***************************************************************************)
LowerChars == <<"c", "f", "i", "k", "l", "o", "p", "r">>
UpperChars == <<"C", "F", "I", "K", "L", "O", "P", "R">>
CharIndex(chars, c) == CHOOSE i \in 1..Len(chars) : chars[i] = c
IsLower(c) == \E i \in 1..Len(LowerChars) : LowerChars[i] = c
IsUpper(c) == \E i \in 1..Len(UpperChars) : UpperChars[i] = c
IsCased(c) == IsLower(c) \/ IsUpper(c)
ToUpper(c) == IF IsLower(c) THEN UpperChars[CharIndex(LowerChars, c)] ELSE c
ToLower(c) == IF IsUpper(c) THEN LowerChars[CharIndex(UpperChars, c)] ELSE c

\* str.title(): a cased character is upper-cased after an uncased one (or at
\* the start) and lower-cased after a cased one
Title(str) ==
    [i \in 1..Len(str) |->
        IF i = 1 \/ ~IsCased(str[i - 1]) THEN ToUpper(str[i]) ELSE ToLower(str[i])]

\* sep.join(strs)
RECURSIVE Join(_, _)
Join(strs, sep) ==
    IF strs = <<>> THEN <<>>
    ELSE IF Len(strs) = 1 THEN strs[1]
    ELSE strs[1] \o sep \o Join(Tail(strs), sep)

MaxTags == 3
MaxCount == 2
GENRES == "Genres"
TagNames == {<<>>, <<"l", "o", "-", "f", "i">>, <<"R", "O", "C", "K">>, <<"p", "o", "p">>}
TagCategories == {GENRES, "Vocalists"}

\* TagUsageForApiContract with its TagBaseContract inlined; a name that is
\* None is the empty string (get_genres tests the name for truthiness only)
TagUsageForApiContract ==
    [count : 0..MaxCount, name : TagNames, category_name : TagCategories]

\* put x behind the last element whose count is not smaller: one step of a
\* stable sort in descending order of count
RECURSIVE InsertByCount(_, _)
InsertByCount(sorted, x) ==
    IF sorted = <<>> THEN <<x>>
    ELSE IF sorted[1].count >= x.count
    THEN <<sorted[1]>> \o InsertByCount(Tail(sorted), x)
    ELSE <<x>> \o sorted

\* reversed(sorted(tags, key=count)): descending, but equal counts come out
\* in reverse input order
RECURSIVE SortedByCountDesc_ReverseOfAscending(_)
SortedByCountDesc_ReverseOfAscending(tags) ==
    IF tags = <<>> THEN <<>>
    ELSE LET rest == SortedByCountDesc_ReverseOfAscending(Tail(tags))
             first == tags[1]
             before == SelectSeq(rest, LAMBDA t : t.count >= first.count)
             after == SelectSeq(rest, LAMBDA t : t.count < first.count)
         IN  before \o <<first>> \o after

\* sorted(remote_tags, key=lambda x: x.count, reverse=True): Python's sort is
\* stable, and stays so under reverse=True
RECURSIVE SortedByCountDesc(_)
SortedByCountDesc(tags) ==
    IF tags = <<>> THEN <<>>
    ELSE InsertByCount(SortedByCountDesc(SubSeq(tags, 1, Len(tags) - 1)), tags[Len(tags)])

RECURSIVE GenreNames(_)
GenreNames(sorted) ==
    IF sorted = <<>> THEN <<>>
    ELSE IF sorted[1].category_name = GENRES /\ sorted[1].name # <<>>
    THEN <<Title(sorted[1].name)>> \o GenreNames(Tail(sorted))
    ELSE GenreNames(Tail(sorted))

get_genres(tags) ==
    LET genres == GenreNames(SortedByCountDesc(tags))
    IN  IF genres # <<>>
        THEN [none |-> FALSE, text |-> Join(genres, <<";", " ">>)]
        ELSE [none |-> TRUE, text |-> <<>>]


(***************************************************************************)
(* Artist categoriser (artists.py).  A credit's optional artist entry is a *)
(* sequence of at most one ArtistContract; category and role sets hold the *)
(* enum members by their string value, which is how the code compares      *)
(* them.                                                                   *)
(***************************************************************************)
VA_NAME == "Various artists"

PRODUCER == "Producer"
BAND == "Band"
CIRCLE == "Circle"
LABEL == "Label"
NOTHING == "Nothing"
OTHER_CATEGORY == "Other"
VOCALIST == "Vocalist"

ROLE_DEFAULT == "Default"
ARRANGER == "Arranger"
COMPOSER == "Composer"
LYRICIST == "Lyricist"

MaxCredits == 2
MaxMainCredits == 6

ArtistContract == {[id |-> 1, name |-> "A"], [id |-> 2, name |-> "B"]}

\* (artist entry, credit name): a nameless credit, two database artists and
\* a custom credit that reuses the name of the first artist
ArtistIdentities ==
    {<< <<>>, None >>, << <<>>, "A" >>} \cup
    {<< <<a>>, a.name >> : a \in ArtistContract}

\* (categories, effective_roles)
ArtistShapes ==
    { <<{PRODUCER}, {ROLE_DEFAULT}>>, <<{PRODUCER}, {COMPOSER}>>,
      <<{BAND, CIRCLE}, {ROLE_DEFAULT}>>, <<{VOCALIST}, {ROLE_DEFAULT}>>,
      <<{OTHER_CATEGORY}, {ARRANGER, LYRICIST}>>, <<{LABEL}, {ROLE_DEFAULT}>>,
      <<{NOTHING}, {COMPOSER}>>, <<{CIRCLE}, {ROLE_DEFAULT}>> }

\* shapes that also occur as support credits, and the shapes of the
\* nameless and of the custom credit
SupportShapes == {<<{PRODUCER}, {ROLE_DEFAULT}>>, <<{VOCALIST}, {ROLE_DEFAULT}>>}

NamelessShapes == SupportShapes \cup {<<{LABEL}, {ROLE_DEFAULT}>>}

CustomShapes == SupportShapes \cup {<<{OTHER_CATEGORY}, {ARRANGER, LYRICIST}>>}

ArtistForAlbumForApiContract ==
    { c \in [artist : {i[1] : i \in ArtistIdentities},
             name : {i[2] : i \in ArtistIdentities},
             categories : {s[1] : s \in ArtistShapes},
             effective_roles : {s[2] : s \in ArtistShapes},
             is_support : BOOLEAN] :
        /\ <<c.artist, c.name>> \in ArtistIdentities
        /\ <<c.categories, c.effective_roles>> \in ArtistShapes
        /\ c.is_support => <<c.categories, c.effective_roles>> \in SupportShapes
        /\ c.name = None =>
               <<c.categories, c.effective_roles>> \in NamelessShapes /\ ~c.is_support
        /\ (c.artist = <<>> /\ c.name # None) =>
               <<c.categories, c.effective_roles>> \in CustomShapes /\ ~c.is_support }

\* the creditable producers, bands-with-circle and vocalists that long
\* credit lists are made of
MainCredits ==
    { c \in ArtistForAlbumForApiContract :
        /\ ~c.is_support
        /\ c.effective_roles = {ROLE_DEFAULT}
        /\ \/ c.artist = <<[id |-> 1, name |-> "A"]>> /\ c.categories = {PRODUCER}
           \/ c.artist = <<[id |-> 2, name |-> "B"]>> /\ c.categories \in {{BAND, CIRCLE}, {VOCALIST}} }

CategorizedArtists ==
    [producers |-> <<>>, composers |-> <<>>, arrangers |-> <<>>,
     lyricists |-> <<>>, circles |-> <<>>, vocalists |-> <<>>]

producer_roles == {ARRANGER, COMPOSER, LYRICIST}

\* name, id of a credit: the artist entry's when there is one
ResolveName(credit) ==
    IF credit.artist # <<>>
    THEN <<credit.artist[1].name, ToString(credit.artist[1].id)>>
    ELSE <<credit.name, "">>

IsProducerOrBand(credit) == {PRODUCER, BAND} \cap credit.categories # {}

\* effective_roles of the credit after the loop body: the Default role of a
\* producer or band is expanded in place
ExpandedRoles(credit) ==
    IF Truthy(ResolveName(credit)[1]) /\ IsProducerOrBand(credit)
       /\ ROLE_DEFAULT \in credit.effective_roles
    THEN credit.effective_roles \cup producer_roles
    ELSE credit.effective_roles

ArtistsAfter(remote) ==
    [i \in 1..Len(remote) |-> [remote[i] EXCEPT !.effective_roles = ExpandedRoles(remote[i])]]

AppendIf(list, cond, x) == IF cond THEN Append(list, x) ELSE list

CategorizeStep_NoDefaultExpansion(acc, credit) ==
    LET pair == ResolveName(credit)
        roles == credit.effective_roles
        b == acc.by_categories
    IN  IF ~Truthy(pair[1]) THEN acc
        ELSE [by_categories |->
                [producers |-> AppendIf(b.producers, IsProducerOrBand(credit), pair),
                 composers |-> AppendIf(b.composers, COMPOSER \in roles, pair),
                 arrangers |-> AppendIf(b.arrangers, ARRANGER \in roles, pair),
                 lyricists |-> AppendIf(b.lyricists, LYRICIST \in roles, pair),
                 circles |-> AppendIf(b.circles,
                                CIRCLE \in credit.categories \/ CIRCLE \in roles, pair),
                 vocalists |-> AppendIf(b.vocalists,
                                VOCALIST \in credit.categories \/ VOCALIST \in roles, pair)],
              not_creditable |->
                IF credit.is_support \/ {NOTHING, LABEL} \cap credit.categories # {}
                THEN acc.not_creditable \cup {pair} ELSE acc.not_creditable]

\* one iteration of the loop over the credits
CategorizeStep(acc, credit) ==
    LET pair == ResolveName(credit)
        roles == ExpandedRoles(credit)
        b == acc.by_categories
    IN  IF ~Truthy(pair[1]) THEN acc
        ELSE [by_categories |->
                [producers |-> AppendIf(b.producers, IsProducerOrBand(credit), pair),
                 composers |-> AppendIf(b.composers, COMPOSER \in roles, pair),
                 arrangers |-> AppendIf(b.arrangers, ARRANGER \in roles, pair),
                 lyricists |-> AppendIf(b.lyricists, LYRICIST \in roles, pair),
                 circles |-> AppendIf(b.circles,
                                CIRCLE \in credit.categories \/ CIRCLE \in roles, pair),
                 vocalists |-> AppendIf(b.vocalists,
                                VOCALIST \in credit.categories \/ VOCALIST \in roles, pair)],
              not_creditable |->
                IF credit.is_support \/ {NOTHING, LABEL} \cap credit.categories # {}
                THEN acc.not_creditable \cup {pair} ELSE acc.not_creditable]

\* CategorizeLoop that keeps the credits of the not-creditable set out of
\* the buckets
RECURSIVE CategorizeLoop_SkipsNotCreditable(_, _, _)
CategorizeLoop_SkipsNotCreditable(remote, i, acc) ==
    IF i > Len(remote) THEN acc
    ELSE LET a == CategorizeStep(acc, remote[i])
         IN  CategorizeLoop_SkipsNotCreditable(remote, i + 1,
                 IF a.not_creditable # acc.not_creditable
                 THEN [acc EXCEPT !.not_creditable = a.not_creditable] ELSE a)

RECURSIVE CategorizeLoop(_, _, _)
CategorizeLoop(remote, i, acc) ==
    IF i > Len(remote) THEN acc
    ELSE CategorizeLoop(remote, i + 1, CategorizeStep(acc, remote[i]))

ApplyFallbacks_ProducersKept(b) ==
    LET fill(own) == IF own = <<>> THEN b.producers ELSE own
    IN  [b EXCEPT !.arrangers = fill(b.arrangers),
                  !.composers = fill(b.composers),
                  !.lyricists = fill(b.lyricists)]

\* producers fall back to vocalists, then each empty role bucket to producers
ApplyFallbacks(b) ==
    LET producers == IF b.vocalists # <<>> /\ b.producers = <<>>
                     THEN b.vocalists ELSE b.producers
        fill(own) == IF own = <<>> THEN producers ELSE own
    IN  [b EXCEPT !.producers = producers,
                  !.arrangers = fill(b.arrangers),
                  !.composers = fill(b.composers),
                  !.lyricists = fill(b.lyricists)]

categorize_artists(remote) ==
    LET looped == CategorizeLoop(remote, 1,
                      [by_categories |-> CategorizedArtists, not_creditable |-> {}])
    IN  [looped EXCEPT !.by_categories = ApplyFallbacks(looped.by_categories)]

RECURSIVE JoinNames(_)
\* ", ".join(names)
JoinNames(names) ==
    IF names = <<>> THEN ""
    ELSE IF Len(names) = 1 THEN names[1]
    ELSE names[1] \o ", " \o JoinNames(Tail(names))

RECURSIVE CreditableNames(_, _, _)
\* [label(name) for name, id in pairs if (name, id) not in not_creditable]
CreditableNames(pairs, not_creditable, comp) ==
    IF pairs = <<>> THEN <<>>
    ELSE LET rest == CreditableNames(Tail(pairs), not_creditable, comp)
         IN  IF Head(pairs) \in not_creditable THEN rest
             ELSE <<IF comp THEN VA_NAME ELSE Head(pairs)[1]>> \o rest

MainArtists(b, not_creditable, comp) ==
    LET candidates == CreditableNames(b.producers \o b.circles, not_creditable, comp)
    IN  IF candidates # <<>> THEN candidates
        ELSE CreditableNames(b.vocalists, not_creditable, FALSE)

\* FeaturedArtists with include_featured_artists ignored
FeaturedArtists_IncludeIgnored(b, not_creditable, comp, include_featured_artists, main_artists) ==
    IF b.vocalists # <<>> /\ (comp \/ main_artists # <<>>)
    THEN CreditableNames(b.vocalists, not_creditable, FALSE)
    ELSE <<>>

FeaturedArtists(b, not_creditable, comp, include_featured_artists, main_artists) ==
    IF include_featured_artists /\ b.vocalists # <<>> /\ (comp \/ main_artists # <<>>)
    THEN CreditableNames(b.vocalists, not_creditable, FALSE)
    ELSE <<>>

ArtistString_SuffixAlways(main_artists, featured_artists) ==
    (IF ~(Len(main_artists) > 5) THEN JoinNames(main_artists) ELSE VA_NAME)
    \o (IF featured_artists # <<>>
        THEN " feat. " \o JoinNames(featured_artists) ELSE "")

ArtistString(main_artists, featured_artists) ==
    (IF ~(Len(main_artists) > 5) THEN JoinNames(main_artists) ELSE VA_NAME)
    \o (IF featured_artists # <<>> /\ ~(Len(main_artists) + Len(featured_artists) > 5)
        THEN " feat. " \o JoinNames(featured_artists) ELSE "")

RECURSIVE FirstNames(_, _)
\* keys of the merged dict: each name at its first appearance
FirstNames(pairs, seen) ==
    IF pairs = <<>> THEN <<>>
    ELSE IF Head(pairs)[1] \in seen THEN FirstNames(Tail(pairs), seen)
    ELSE <<Head(pairs)[1]>> \o FirstNames(Tail(pairs), seen \cup {Head(pairs)[1]})

\* value of the merged dict: the id of the last pair carrying the name
LastId(pairs, name) ==
    LET last == CHOOSE i \in 1..Len(pairs) :
                    /\ pairs[i][1] = name
                    /\ \A j \in (i + 1)..Len(pairs) : pairs[j][1] # name
    IN  pairs[last][2]

\* extract_artists_from_categories with circles and vocalists merged before
\* the role buckets
extract_artists_from_categories_CirclesBeforeRoles(b) ==
    LET pairs == b.producers \o b.circles \o b.vocalists \o b.arrangers
                 \o b.composers \o b.lyricists
        names == FirstNames(pairs, {})
    IN  [artists |-> names,
         artists_ids |-> [i \in 1..Len(names) |-> LastId(pairs, names[i])]]

extract_artists_from_categories(b) ==
    LET pairs == b.producers \o b.composers \o b.arrangers \o b.lyricists
                 \o b.circles \o b.vocalists
        names == FirstNames(pairs, {})
    IN  [artists |-> names,
         artists_ids |-> [i \in 1..Len(names) |-> LastId(pairs, names[i])]]

RECURSIVE FirstTruthy(_)
\* next(filter(None, ids), None)
FirstTruthy(ids) ==
    IF ids = <<>> THEN None
    ELSE IF Truthy(Head(ids)) THEN Head(ids) ELSE FirstTruthy(Tail(ids))

RECURSIVE LookupIds(_, _, _)
\* the ids the loop over main and featured artists looks up, misses skipped
LookupIds(xs, names, ids) ==
    IF xs = <<>> THEN <<>>
    ELSE LET rest == LookupIds(Tail(xs), names, ids)
         IN  IF \E i \in 1..Len(names) : names[i] = Head(xs)
             THEN <<ids[CHOOSE i \in 1..Len(names) : names[i] = Head(xs)]>> \o rest
             ELSE rest

\* ArtistId without the fallback to the first non-empty id
ArtistId_NoFallback(main_artists, featured_artists, names, ids) ==
    FirstTruthy(LookupIds(main_artists \o featured_artists, names, ids))

ArtistId(main_artists, featured_artists, names, ids) ==
    LET found == FirstTruthy(LookupIds(main_artists \o featured_artists, names, ids))
    IN  IF Truthy(found) THEN found ELSE FirstTruthy(ids)

get_artists(b, not_creditable, comp, include_featured_artists) ==
    LET main_artists == MainArtists(b, not_creditable, comp)
        featured_artists ==
            FeaturedArtists(b, not_creditable, comp, include_featured_artists, main_artists)
        extracted == extract_artists_from_categories(b)
    IN  [artist |-> ArtistString(main_artists, featured_artists),
         artist_id |-> ArtistId(main_artists, featured_artists,
                                extracted.artists, extracted.artists_ids),
         artists |-> extracted.artists,
         artists_ids |-> extracted.artists_ids,
         main_artists |-> main_artists,
         featured_artists |-> featured_artists]

RECURSIVE get_label(_)
get_label(remote) ==
    IF remote = <<>> THEN None
    ELSE IF LABEL \in Head(remote).categories THEN Head(remote).name
    ELSE get_label(Tail(remote))

PairNames(pairs) == [i \in 1..Len(pairs) |-> pairs[i][1]]

JoinOrNone(pairs) == IF pairs = <<>> THEN None ELSE JoinNames(PairNames(pairs))

NoCategorized == [by_categories |-> CategorizedArtists, not_creditable |-> {}]

get_album_artists(remote, comp, include_featured_artists) ==
    IF remote = <<>>
    THEN [artist |-> "", artist_id |-> None, artists |-> <<>>, artists_ids |-> <<>>,
          main_artists |-> <<>>, featured_artists |-> <<>>,
          label |-> None, arranger |-> None, composer |-> None, lyricist |-> None,
          categorized |-> NoCategorized]
    ELSE LET c == categorize_artists(remote)
         IN  get_artists(c.by_categories, c.not_creditable, comp, include_featured_artists)
             @@ [label |-> get_label(remote),
                 arranger |-> None, composer |-> None, lyricist |-> None,
                 categorized |-> c]

get_track_artists(remote) ==
    IF remote = <<>>
    THEN [artist |-> "", artist_id |-> None, artists |-> <<>>, artists_ids |-> <<>>,
          main_artists |-> <<>>, featured_artists |-> <<>>,
          label |-> None, arranger |-> "", composer |-> "", lyricist |-> "",
          categorized |-> NoCategorized]
    ELSE LET c == categorize_artists(remote)
         IN  get_artists(c.by_categories, c.not_creditable, FALSE, TRUE)
             @@ [label |-> None,
                 arranger |-> JoinOrNone(c.by_categories.arrangers),
                 composer |-> JoinOrNone(c.by_categories.composers),
                 lyricist |-> JoinOrNone(c.by_categories.lyricists),
                 categorized |-> c]

(***************************************************************************)
(* Album and track reconciliation: Mapper (mapper.py, utils.py) and the    *)
(* older PluginABC (abc.py).  An optional embedded song is a sequence of   *)
(* at most one song; a call that raises returns the exception's name.      *)
(***************************************************************************)
AUDIO == "Audio"
VIDEO == "Video"
DiscMediaType == {AUDIO, VIDEO}

MaxTracks == 3
MaxDiscs == 2
DiscNumbers == {1, 2}
TrackNumbers == {1, 2}

\* AlbumDiscPropertiesContract.total before it is computed
NoTotal == 0

AlbumDiscPropertiesContract ==
    { [disc_number |-> n, media_type |-> m,
       name |-> IF m = VIDEO THEN "DVD" ELSE "CD", total |-> NoTotal] :
          n \in DiscNumbers, m \in DiscMediaType }

COMPILATION == "Compilation"

\* release dates: marked empty or not, each of year, month and day present
\* or absent (0)
OptionalDateTimeContract ==
    [is_empty : BOOLEAN, year : {0, 2020}, month : {0, 5}, day : {0, 17}]

\* lyrics of a song without lyrics, with English and with Japanese originals
SongLyrics ==
    { <<>>,
      <<[translation_type |-> ORIGINAL, value |-> "lyrics1", culture_codes |-> {"en"}]>>,
      <<[translation_type |-> ORIGINAL, value |-> "lyrics2", culture_codes |-> {"ja"}]>> }

\* a track entry before its song is given an id
SongInAlbumForApiContract ==
    [disc_number : DiscNumbers, track_number : TrackNumbers,
     song : {<<>>} \cup {<<[lyrics |-> l]>> : l \in SongLyrics}]

\* the entries with the songs numbered by their place in the album
WithSongIds(entries) ==
    [i \in 1..Len(entries) |->
        [entries[i] EXCEPT !.song =
            IF @ = <<>> THEN <<>> ELSE <<[id |-> i, lyrics |-> @[1].lyrics]>>]]

Max(S) == CHOOSE x \in S : \A y \in S : y <= x

discs_fallback(disc_total) ==
    [i \in 1..disc_total |->
        [disc_number |-> i, media_type |-> AUDIO, name |-> "CD", total |-> NoTotal]]

track_info(remote_song, pref, index, media, medium, medium_index, medium_total) ==
    LET l == get_lyrics(remote_song.lyrics, pref)
    IN  [track_id |-> ToString(remote_song.id), index |-> index, media |-> media,
         medium |-> medium, medium_index |-> medium_index,
         medium_total |-> medium_total, script |-> l.script, language |-> l.language]

RECURSIVE Runs(_)
\* itertools.groupby: the runs of consecutive tracks with the same disc number
Runs(remote_songs) ==
    IF remote_songs = <<>> THEN <<>>
    ELSE LET d == Head(remote_songs).disc_number
             rest == Runs(Tail(remote_songs))
         IN  IF rest # <<>> /\ rest[1].disc_number = d
             THEN <<[disc_number |-> d, songs |-> <<Head(remote_songs)>> \o rest[1].songs]>>
                  \o Tail(rest)
             ELSE <<[disc_number |-> d, songs |-> <<Head(remote_songs)>>]>> \o rest

RECURSIVE FirstKeys(_, _)
FirstKeys(runs, seen) ==
    IF runs = <<>> THEN <<>>
    ELSE IF Head(runs).disc_number \in seen THEN FirstKeys(Tail(runs), seen)
    ELSE <<Head(runs).disc_number>>
         \o FirstKeys(Tail(runs), seen \cup {Head(runs).disc_number})

\* the dict built from the runs: a disc number keeps the place of its first
\* run and the tracks of its last run
group_tracks_by_disc(remote_songs) ==
    LET runs == Runs(remote_songs)
        keys == FirstKeys(runs, {})
        last(d) == CHOOSE i \in 1..Len(runs) :
                       /\ runs[i].disc_number = d
                       /\ \A j \in (i + 1)..Len(runs) : runs[j].disc_number # d
    IN  [k \in 1..Len(keys) |->
            [disc_number |-> keys[k], songs |-> runs[last(keys[k])].songs]]

RECURSIVE DiscTrackInfos_StopsAtMissingSong(_, _, _, _, _)
DiscTrackInfos_StopsAtMissingSong(songs, pref, remote_disc, disc_number, total) ==
    IF songs = <<>> THEN <<>>
    ELSE LET remote_song == Head(songs)
         IN  IF remote_song.song = <<>> THEN <<>>
             ELSE <<track_info(remote_song.song[1], pref, remote_song.track_number,
                               remote_disc.name, disc_number,
                               remote_song.track_number, total)>>
                  \o DiscTrackInfos_StopsAtMissingSong(Tail(songs), pref, remote_disc,
                                                       disc_number, total)

RECURSIVE DiscTrackInfos(_, _, _, _, _)
\* the inner loop over the tracks of one disc
DiscTrackInfos(songs, pref, remote_disc, disc_number, total) ==
    IF songs = <<>> THEN <<>>
    ELSE LET rest == DiscTrackInfos(Tail(songs), pref, remote_disc, disc_number, total)
             remote_song == Head(songs)
         IN  IF remote_song.song = <<>> THEN rest
             ELSE <<track_info(remote_song.song[1], pref, remote_song.track_number,
                               remote_disc.name, disc_number,
                               remote_song.track_number, total)>> \o rest

RECURSIVE MapperDiscLoop(_, _, _, _, _, _)
\* the loop over tracks_by_disc.items()
MapperDiscLoop(groups, k, remote_discs, ignore, pref, tracks) ==
    IF k > Len(groups) THEN [raised |-> None, tracks |-> tracks]
    ELSE LET disc_number == groups[k].disc_number
         IN  IF disc_number > Len(remote_discs)
             THEN [raised |-> "IndexError", tracks |-> <<>>]
             ELSE LET remote_disc == remote_discs[disc_number]
                  IN  IF remote_disc.media_type = VIDEO /\ ignore
                      THEN MapperDiscLoop(groups, k + 1, remote_discs, ignore, pref, tracks)
                      ELSE MapperDiscLoop(groups, k + 1, remote_discs, ignore, pref,
                               tracks \o DiscTrackInfos(groups[k].songs, pref, remote_disc,
                                             disc_number, Len(groups[k].songs)))

Mapper_get_album_track_infos(remote_songs, remote_discs, ignore, pref) ==
    MapperDiscLoop(group_tracks_by_disc(remote_songs), 1, remote_discs, ignore, pref, <<>>)

NoAlbumInfo(returned) ==
    [returned |-> returned, tracks |-> <<>>, mediums |-> 0, media |-> None,
     script |-> None, language |-> None,
     va |-> FALSE, artist |-> "", year |-> 0, month |-> 0, day |-> 0]

\* Mapper_album_fields with the flag taken from the disc type alone
Mapper_album_fields_VaFromDiscType(album, include_featured_album_artists) ==
    LET comp == album.disc_type = COMPILATION
        a == get_album_artists(album.artists, comp, include_featured_album_artists)
    IN  [va |-> comp, artist |-> a.artist,
         year |-> album.release_date.year, month |-> album.release_date.month,
         day |-> album.release_date.day]

\* Mapper.album_info: the various-artists flag, the artist string and the
\* release date of the album record (an absent year, month or day is 0)
Mapper_album_fields(album, include_featured_album_artists) ==
    LET comp == album.disc_type = COMPILATION
        a == get_album_artists(album.artists, comp, include_featured_album_artists)
    IN  [va |-> comp \/ a.artist = VA_NAME, artist |-> a.artist,
         year |-> album.release_date.year, month |-> album.release_date.month,
         day |-> album.release_date.day]

\* VocaDBPlugin.album_info (the single-file plugin): the date of a release
\* marked empty is dropped
VocaDBPlugin_release_date(date) ==
    IF ~date.is_empty
    THEN [year |-> date.year, month |-> date.month, day |-> date.day]
    ELSE [year |-> 0, month |-> 0, day |-> 0]

Mapper_album_info_EmptyIsNone(album, ignore, include_featured_album_artists, pref) ==
    IF album.tracks = <<>> THEN NoAlbumInfo("None")
    ELSE LET remote_discs ==
                 IF album.discs # <<>> THEN album.discs
                 ELSE discs_fallback(album.tracks[Len(album.tracks)].disc_number)
             t == Mapper_get_album_track_infos(album.tracks, remote_discs, ignore, pref)
         IN  IF t.raised # None THEN NoAlbumInfo(t.raised)
             ELSE IF t.tracks = <<>> THEN NoAlbumInfo("None")
             ELSE [returned |-> "AlbumInfo", tracks |-> t.tracks,
                   mediums |-> Len(remote_discs), media |-> remote_discs[1].name,
                   script |-> None, language |-> None]
                  @@ Mapper_album_fields(album, include_featured_album_artists)

Mapper_album_info(album, ignore, include_featured_album_artists, pref) ==
    IF album.tracks = <<>> THEN NoAlbumInfo("None")
    ELSE LET remote_discs ==
                 IF album.discs # <<>> THEN album.discs
                 ELSE discs_fallback(
                          album.tracks[Len(album.tracks)].disc_number)
             t == Mapper_get_album_track_infos(album.tracks, remote_discs, ignore, pref)
         IN  IF t.raised # None THEN NoAlbumInfo(t.raised)
             ELSE [returned |-> "AlbumInfo", tracks |-> t.tracks,
                   mediums |-> Len(remote_discs), media |-> remote_discs[1].name,
                   script |-> None, language |-> None]
                  @@ Mapper_album_fields(album, include_featured_album_artists)

TrackNumbersOn(remote_tracks, disc_number) ==
    {remote_tracks[i].track_number :
        i \in {j \in 1..Len(remote_tracks) : remote_tracks[j].disc_number = disc_number}}

\* PluginABC.album_info: one disc per number up to the largest disc number
SynthesizedDiscs(remote_tracks) ==
    discs_fallback(Max({remote_tracks[i].disc_number : i \in 1..Len(remote_tracks)}))

RECURSIVE IgnoredDiscsLoop(_, _, _, _, _)
\* PluginABC.album_info: the loop that collects ignored_discs and sets each
\* other disc's total; max() of no track number raises ValueError
IgnoredDiscsLoop(remote_discs, k, remote_tracks, ignore, ignored_discs) ==
    IF k > Len(remote_discs)
    THEN [raised |-> None, discs |-> remote_discs, ignored_discs |-> ignored_discs]
    ELSE LET remote_disc == remote_discs[k]
             numbers == TrackNumbersOn(remote_tracks, remote_disc.disc_number)
         IN  IF remote_disc.media_type = VIDEO /\ ignore
             THEN IgnoredDiscsLoop(remote_discs, k + 1, remote_tracks, ignore,
                                   ignored_discs \cup {remote_disc.disc_number})
             ELSE IF numbers = {}
             THEN [raised |-> "ValueError", discs |-> remote_discs,
                   ignored_discs |-> ignored_discs]
             ELSE IgnoredDiscsLoop([remote_discs EXCEPT ![k].total = Max(numbers)],
                                   k + 1, remote_tracks, ignore, ignored_discs)

\* one step of the running album script and language
UnifyStep(acc, track) ==
    IF Truthy(track.script) /\ acc.script # "Qaaa"
    THEN IF ~Truthy(acc.script)
         THEN [script |-> track.script, language |-> track.language]
         ELSE IF acc.script # track.script
         THEN [script |-> "Qaaa", language |-> "mul"]
         ELSE acc
    ELSE acc

RECURSIVE PluginABCTrackLoop(_, _, _, _, _, _, _)
\* PluginABC.get_album_track_infos: the loop over the tracks
PluginABCTrackLoop(remote_tracks, i, remote_discs, ignored_discs, pref, tracks, acc) ==
    IF i > Len(remote_tracks)
    THEN [raised |-> None, tracks |-> tracks, script |-> acc.script,
          language |-> acc.language]
    ELSE LET remote_track == remote_tracks[i]
             disc_number == remote_track.disc_number
         IN  IF remote_track.song = <<>> \/ disc_number \in ignored_discs
             THEN PluginABCTrackLoop(remote_tracks, i + 1, remote_discs, ignored_discs,
                                     pref, tracks, acc)
             ELSE IF disc_number > Len(remote_discs)
             THEN [raised |-> "IndexError", tracks |-> <<>>, script |-> None,
                   language |-> None]
             ELSE LET info == track_info(remote_track.song[1], pref,
                                  remote_track.track_number,
                                  remote_discs[disc_number].name, disc_number,
                                  remote_track.track_number,
                                  remote_discs[disc_number].total)
                  IN  PluginABCTrackLoop(remote_tracks, i + 1, remote_discs, ignored_discs,
                                         pref, Append(tracks, info), UnifyStep(acc, info))

PluginABC_get_album_track_infos(remote_tracks, remote_discs, ignored_discs, pref) ==
    LET r == PluginABCTrackLoop(remote_tracks, 1, remote_discs, ignored_discs, pref, <<>>,
                 [script |-> None, language |-> None])
    IN  IF r.raised = None /\ (r.script = "Qaaa" \/ r.language = "mul")
        THEN [r EXCEPT !.tracks =
                 [i \in 1..Len(r.tracks) |->
                     [r.tracks[i] EXCEPT !.script = r.script, !.language = r.language]]]
        ELSE r

\* album.discs when PluginABC.album_info returns or raises
PluginABC_discs_after(album, ignore) ==
    IF album.tracks = <<>> THEN album.discs
    ELSE IgnoredDiscsLoop(
             IF album.discs # <<>> THEN album.discs
             ELSE SynthesizedDiscs(album.tracks),
             1, album.tracks, ignore, {}).discs

\* the artist string and the various-artists flag of PluginABC come from its
\* own get_artists and are left at their defaults here
PluginABC_album_info(album, ignore, pref) ==
    IF album.tracks = <<>> THEN NoAlbumInfo("None")
    ELSE LET d == IgnoredDiscsLoop(
                      IF album.discs # <<>> THEN album.discs
                      ELSE SynthesizedDiscs(album.tracks),
                      1, album.tracks, ignore, {})
             t == PluginABC_get_album_track_infos(album.tracks, d.discs,
                                                  d.ignored_discs, pref)
         IN  IF d.raised # None THEN NoAlbumInfo(d.raised)
             ELSE IF t.raised # None THEN NoAlbumInfo(t.raised)
             ELSE [returned |-> "AlbumInfo", tracks |-> t.tracks,
                   mediums |-> Len(d.discs), media |-> d.discs[1].name,
                   script |-> t.script, language |-> t.language,
                   va |-> FALSE, artist |-> "",
                   year |-> album.release_date.year,
                   month |-> album.release_date.month,
                   day |-> album.release_date.day]

(***************************************************************************)
(* ASIN extraction (utils.get_asin, and the loop of PluginABC.album_info). *)
(* Descriptions and URLs are sequences of characters so that the regular   *)
(* expressions are computed; an absent or empty string is <<>>, which the  *)
(* code does not tell apart, and so is the result None.                    *)
(***************************************************************************)
MaxLinks == 2

AMAZON == <<"A", "m", "a", "z", "o", "n">>

CountryCodes == {<<"L", "E">>, <<"R", "E">>, <<"J", "P">>, <<"U", "S">>}

WebLinkDescriptions ==
    { <<>>, AMAZON, AMAZON \o <<" ", "(", "J", "P", ")">>,
      AMAZON \o <<" ", "J", "P">>, AMAZON \o <<" ", "M", "P", "3">> }

UrlWithRef ==
    <<"h", "t", "t", "p", "s", ":", "/", "/", "x", "/", "d", "p", "/", "B",
      "0", "0", "0", "A", "B", "C", "1", "2", "3", "/", "r", "e", "f">>

UrlPlain ==
    <<"h", "t", "t", "p", "s", ":", "/", "/", "x", "/", "d", "p", "/", "B",
      "0", "1">>

UrlNoDp ==
    <<"h", "t", "t", "p", "s", ":", "/", "/", "x", "/", "g", "p", "/", "B",
      "0", "1">>

WebLinkUrls == {<<>>, UrlWithRef, UrlPlain, UrlNoDp}

WebLinkForApiContract ==
    [disabled : BOOLEAN, description : WebLinkDescriptions, url : WebLinkUrls]

StartsWith(s, prefix) ==
    Len(s) >= Len(prefix) /\ SubSeq(s, 1, Len(prefix)) = prefix

\* "$" at position i: the end of the string, or just before a final newline
AtEnd(s, i) == i = Len(s) + 1 \/ (i = Len(s) /\ s[i] = "\n")

\* ".*$" from position i: "." does not match a newline
DotStarToEnd(s, i) ==
    \E j \in i..(Len(s) + 1) :
        (\A k \in i..(j - 1) : s[k] # "\n") /\ AtEnd(s, j)

\* match(r"Amazon( \((LE|RE|JP|US)\).*)?$", description) of PluginABC
PluginABC_description_matches(description) ==
    /\ StartsWith(description, AMAZON)
    /\ \/ AtEnd(description, Len(AMAZON) + 1)
       \/ \E code \in CountryCodes :
              /\ StartsWith(description, AMAZON \o <<" ", "(">> \o code \o <<")">>)
              /\ DotStarToEnd(description, Len(AMAZON) + 6)

\* match(r"Amazon( ((LE|RE|JP|US)).*)?$", description) of utils.get_asin: the
\* parentheses are groups of the pattern, not characters of the description
description_matches(description) ==
    /\ StartsWith(description, AMAZON)
    /\ \/ AtEnd(description, Len(AMAZON) + 1)
       \/ \E code \in CountryCodes :
              /\ StartsWith(description, AMAZON \o <<" ">> \o code)
              /\ DotStarToEnd(description, Len(AMAZON) + 4)

\* the capture of "/dp/(.+?)(/|$)" when the pattern is tried at position i:
\* its last position, or 0 when the pattern does not match there
CaptureEnd(url, i) ==
    LET ends == {j \in (i + 4)..Len(url) :
                    /\ \A k \in (i + 4)..j : url[k] # "\n"
                    /\ (AtEnd(url, j + 1) \/ url[j + 1] = "/")}
    IN  IF i + 3 <= Len(url) /\ SubSeq(url, i, i + 3) = <<"/", "d", "p", "/">>
           /\ ends # {}
        THEN CHOOSE j \in ends : \A m \in ends : j <= m
        ELSE 0

\* search(r"/dp/(.+?)(/|$)", url)[1], <<>> when there is no match
asin_search(url) ==
    LET starts == {i \in 1..Len(url) : CaptureEnd(url, i) # 0}
    IN  IF starts = {} THEN <<>>
        ELSE LET i == CHOOSE s \in starts : \A m \in starts : s <= m
             IN  SubSeq(url, i + 4, CaptureEnd(url, i))

RECURSIVE PluginABC_asin(_)
\* the web-link loop of PluginABC.album_info
PluginABC_asin(links) ==
    IF links = <<>> THEN <<>>
    ELSE LET link == Head(links)
         IN  IF ~link.disabled /\ link.url # <<>> /\ link.description # <<>>
                /\ PluginABC_description_matches(link.description)
                /\ asin_search(link.url) # <<>>
             THEN asin_search(link.url)
             ELSE PluginABC_asin(Tail(links))

RECURSIVE get_asin(_)
get_asin(links) ==
    IF links = <<>> THEN <<>>
    ELSE LET link == Head(links)
         IN  IF ~link.disabled /\ link.url # <<>> /\ link.description # <<>>
                /\ description_matches(link.description)
                /\ asin_search(link.url) # <<>>
             THEN asin_search(link.url)
             ELSE get_asin(Tail(links))

(***************************************************************************)
(* Lookups by id (PluginBase.album_for_id, track_for_id of base.py) and    *)
(* the transport (ApiClient.call_api).  An id is a sequence of characters; *)
(* "U+00BD" stands for the one character VULGAR FRACTION ONE HALF, which   *)
(* str.isnumeric accepts and int() rejects.  An optional record is a       *)
(* sequence of at most one record.                                         *)
(***************************************************************************)
LookupIdStrings ==
    {<<"1", "2">>, <<"a">>, <<"1", "a">>, <<>>, <<"U+00BD">>}

isnumeric(s) ==
    /\ s # <<>>
    /\ \A i \in 1..Len(s) :
           s[i] \in {"0", "1", "2", "3", "4", "5", "6", "7", "8", "9", "U+00BD"}

call_api_RetriesOnError(response) ==
    IF response.status = "HTTPError"
    THEN [gets |-> 2, value |-> <<>>]
    ELSE [gets |-> 1, value |-> <<response>>]

\* one GET; an httpx.HTTPError is logged and None returned
call_api(response) ==
    IF response.status = "HTTPError"
    THEN [gets |-> 1, value |-> <<>>]
    ELSE [gets |-> 1, value |-> <<response>>]

album_for_id(id, response, ignore, include_featured_album_artists, pref) ==
    IF ~isnumeric(id) THEN [gets |-> 0, returned |-> "None", record |-> <<>>]
    ELSE IF "U+00BD" \in {id[i] : i \in 1..Len(id)}
    THEN [gets |-> 0, returned |-> "ValueError", record |-> <<>>]
    ELSE LET r == call_api(response)
             info == Mapper_album_info(r.value[1].album, ignore,
                                       include_featured_album_artists, pref)
         IN  IF r.value = <<>>
             THEN [gets |-> r.gets, returned |-> "None", record |-> <<>>]
             ELSE [gets |-> r.gets, returned |-> info.returned,
                   record |-> IF info.returned = "AlbumInfo" THEN <<info>> ELSE <<>>]

track_for_id(id, response, pref) ==
    IF ~isnumeric(id) THEN [gets |-> 0, returned |-> "None", record |-> <<>>]
    ELSE IF "U+00BD" \in {id[i] : i \in 1..Len(id)}
    THEN [gets |-> 0, returned |-> "ValueError", record |-> <<>>]
    ELSE LET r == call_api(response)
         IN  IF r.value = <<>>
             THEN [gets |-> r.gets, returned |-> "None", record |-> <<>>]
             ELSE [gets |-> r.gets, returned |-> "TrackInfo",
                   record |-> <<track_info(r.value[1].song, pref, 0, None, 0, 0, 0)>>]

(***************************************************************************)
(* State machine.  Each specification draws the input of one component in  *)
(* Init and leaves the other components idle; its actions are the calls of *)
(* that component.                                                         *)
(***************************************************************************)
NoLyricsResult ==
    [op |-> "none", arg |-> <<>>, script |-> None, language |-> None, lyrics |-> None]

NoGenresResult == [op |-> "none", arg |-> <<>>, none |-> TRUE, text |-> <<>>]

NoArtistsResult ==
    [op |-> "none", arg |-> <<>>, comp |-> FALSE, include_featured_artists |-> FALSE]
    @@ get_album_artists(<<>>, FALSE, FALSE)

IdleLyrics ==
    /\ language_preference = DEFAULT
    /\ remote_lyrics_list = <<>>
    /\ lyrics_result = NoLyricsResult

IdleGenres == remote_tags = <<>> /\ genres_result = NoGenresResult

IdleArtists == remote_artists = <<>> /\ artists_result = NoArtistsResult

NoAlbum ==
    [tracks |-> <<>>, discs |-> <<>>, artists |-> <<>>, disc_type |-> "Album",
     release_date |-> [is_empty |-> TRUE, year |-> 0, month |-> 0, day |-> 0]]

NoAlbumResult ==
    [op |-> "none", arg |-> NoAlbum, ignore_video_tracks |-> FALSE,
     include_featured_album_artists |-> FALSE] @@ NoAlbumInfo("none")

IdleAlbum ==
    /\ ignore_video_tracks = FALSE
    /\ remote_album = NoAlbum
    /\ album_result = NoAlbumResult

NoAsinResult == [op |-> "none", arg |-> <<>>, asin |-> <<>>]

IdleLinks == web_links = <<>> /\ asin_result = NoAsinResult

NoLookupResult ==
    [op |-> "none", arg |-> <<>>, gets |-> 0, returned |-> "none", record |-> <<>>]

IdleLookup == lookup = <<>> /\ lookup_result = NoLookupResult

InitLyrics ==
    /\ language_preference \in ContentLanguagePreference
    /\ \E k \in 0..MaxLyrics : remote_lyrics_list \in [1..k -> LyricsForSongContract]
    /\ lyrics_result = NoLyricsResult
    /\ IdleGenres /\ IdleArtists /\ IdleAlbum /\ IdleLinks /\ IdleLookup

GetLyrics ==
    /\ lyrics_result' =
           [op |-> "get_lyrics", arg |-> remote_lyrics_list] @@
           get_lyrics(remote_lyrics_list, language_preference)
    /\ remote_lyrics_list' = LyricsListAfter(remote_lyrics_list)
    /\ UNCHANGED <<language_preference, genres_vars, artists_vars, album_vars, links_vars, lookup_vars>>

GetFallbackLyrics ==
    /\ lyrics_result' =
           [op |-> "get_fallback_lyrics", arg |-> remote_lyrics_list,
            script |-> None, language |-> None,
            lyrics |-> get_fallback_lyrics(remote_lyrics_list, language_preference)]
    /\ UNCHANGED <<language_preference, remote_lyrics_list, genres_vars, artists_vars, album_vars, links_vars, lookup_vars>>

NextLyrics == GetLyrics \/ GetFallbackLyrics

SpecLyrics == InitLyrics /\ [][NextLyrics]_vars

InitGenres ==
    /\ \E k \in 0..MaxTags : remote_tags \in [1..k -> TagUsageForApiContract]
    /\ genres_result = NoGenresResult
    /\ IdleLyrics /\ IdleArtists /\ IdleAlbum /\ IdleLinks /\ IdleLookup

GetGenres ==
    /\ genres_result' = [op |-> "get_genres", arg |-> remote_tags] @@ get_genres(remote_tags)
    /\ UNCHANGED <<remote_tags, lyrics_vars, artists_vars, album_vars, links_vars, lookup_vars>>

NextGenres == GetGenres

SpecGenres == InitGenres /\ [][NextGenres]_vars

InitArtists ==
    /\ \/ \E k \in 0..MaxCredits :
              remote_artists \in [1..k -> ArtistForAlbumForApiContract]
       \/ \E k \in (MaxCredits + 1)..MaxMainCredits :
              remote_artists \in [1..k -> MainCredits]
    /\ artists_result = NoArtistsResult
    /\ IdleLyrics /\ IdleGenres /\ IdleAlbum /\ IdleLinks /\ IdleLookup

GetAlbumArtists ==
    \E comp \in BOOLEAN, include_featured_artists \in BOOLEAN :
        /\ artists_result' =
               [op |-> "get_album_artists", arg |-> remote_artists, comp |-> comp,
                include_featured_artists |-> include_featured_artists]
               @@ get_album_artists(remote_artists, comp, include_featured_artists)
        /\ remote_artists' = ArtistsAfter(remote_artists)
        /\ UNCHANGED <<lyrics_vars, genres_vars, album_vars, links_vars, lookup_vars>>

GetTrackArtists ==
    /\ artists_result' =
           [op |-> "get_track_artists", arg |-> remote_artists, comp |-> FALSE,
            include_featured_artists |-> TRUE]
           @@ get_track_artists(remote_artists)
    /\ remote_artists' = ArtistsAfter(remote_artists)
    /\ UNCHANGED <<lyrics_vars, genres_vars, album_vars, links_vars, lookup_vars>>

NextArtists == GetAlbumArtists \/ GetTrackArtists

SpecArtists == InitArtists /\ [][NextArtists]_vars

\* track entries of the albums whose discs vary: a song without lyrics or no
\* song, numbered per disc by Renumbered
PlainEntries ==
    { e \in SongInAlbumForApiContract :
        e.track_number = 1 /\ (e.song = <<>> \/ e.song[1].lyrics = <<>>) }

\* track entries of the single-disc albums whose songs vary in script
FirstDiscEntries == { e \in SongInAlbumForApiContract : e.disc_number = 1 }

\* track numbers counted per disc in album order
Renumbered(entries) ==
    [i \in 1..Len(entries) |->
        [entries[i] EXCEPT !.track_number =
            1 + Cardinality({j \in 1..(i - 1) :
                                entries[j].disc_number = entries[i].disc_number})]]

InitAlbum ==
    LET OneTrack ==
            WithSongIds(<<[disc_number |-> 1, track_number |-> 1,
                           song |-> <<[lyrics |-> <<>>]>>]>>)
    IN
        /\ \/ /\ ignore_video_tracks \in BOOLEAN
              /\ \/ \E k \in 0..MaxTracks, n \in 0..MaxDiscs :
                        \E entries \in [1..k -> PlainEntries],
                           discs \in [1..n -> AlbumDiscPropertiesContract] :
                            remote_album =
                                [NoAlbum EXCEPT
                                    !.tracks = WithSongIds(Renumbered(entries)),
                                    !.discs = discs]
                 \/ \E k \in 1..MaxTracks :
                        \E entries \in [1..k -> FirstDiscEntries] :
                            remote_album =
                                [NoAlbum EXCEPT !.tracks = WithSongIds(entries)]
           \/ /\ ignore_video_tracks = FALSE
              \* one track, and a release date and a disc type
              /\ \/ \E date \in OptionalDateTimeContract,
                       disc_type \in {"Album", COMPILATION} :
                        remote_album = [NoAlbum EXCEPT !.tracks = OneTrack,
                                                       !.disc_type = disc_type,
                                                       !.release_date = date]
                 \* one track, a disc type and credits: up to one credit of
                 \* any kind, or a long list of main credits
                 \/ \E disc_type \in {"Album", COMPILATION},
                       k \in {0, 1, MaxMainCredits} :
                        \E credits \in [1..k -> IF k <= 1
                                                   THEN ArtistForAlbumForApiContract
                                                   ELSE MainCredits] :
                            remote_album = [NoAlbum EXCEPT !.tracks = OneTrack,
                                                           !.disc_type = disc_type,
                                                           !.artists = credits]
        /\ album_result = NoAlbumResult
        /\ IdleLyrics /\ IdleGenres /\ IdleArtists /\ IdleLinks /\ IdleLookup

\* include_featured_album_artists is the Mapper's configuration, which only
\* an album with credits depends on (False is its default); the credits are
\* changed by get_album_artists, which is reached when the tracks have been
\* mapped
MapperAlbumInfo ==
    \E include_featured_album_artists \in
           IF remote_album.artists = <<>> THEN {FALSE} ELSE BOOLEAN :
        LET info == Mapper_album_info(remote_album, ignore_video_tracks,
                        include_featured_album_artists, language_preference)
        IN  /\ album_result' =
                   [op |-> "Mapper.album_info", arg |-> remote_album,
                    ignore_video_tracks |-> ignore_video_tracks,
                    include_featured_album_artists |-> include_featured_album_artists]
                   @@ info
            /\ remote_album' =
                   IF info.returned = "AlbumInfo"
                   THEN [remote_album EXCEPT !.artists = ArtistsAfter(@)]
                   ELSE remote_album
            /\ UNCHANGED <<ignore_video_tracks, lyrics_vars, genres_vars, artists_vars, links_vars, lookup_vars>>

PluginABCAlbumInfo ==
    /\ album_result' =
           [op |-> "PluginABC.album_info", arg |-> remote_album,
            ignore_video_tracks |-> ignore_video_tracks,
            include_featured_album_artists |-> FALSE]
           @@ PluginABC_album_info(remote_album, ignore_video_tracks, language_preference)
    /\ remote_album' =
           [remote_album EXCEPT !.discs = PluginABC_discs_after(remote_album, ignore_video_tracks)]
    /\ UNCHANGED <<ignore_video_tracks, lyrics_vars, genres_vars, artists_vars, links_vars, lookup_vars>>

NextAlbum == MapperAlbumInfo \/ PluginABCAlbumInfo

SpecAlbum == InitAlbum /\ [][NextAlbum]_vars

InitLinks ==
    /\ \E k \in 0..MaxLinks : web_links \in [1..k -> WebLinkForApiContract]
    /\ asin_result = NoAsinResult
    /\ IdleLyrics /\ IdleGenres /\ IdleArtists /\ IdleAlbum /\ IdleLookup

GetAsin ==
    /\ asin_result' = [op |-> "get_asin", arg |-> web_links, asin |-> get_asin(web_links)]
    /\ UNCHANGED <<web_links, lyrics_vars, genres_vars, artists_vars, album_vars, lookup_vars>>

PluginABCAsin ==
    /\ asin_result' =
           [op |-> "PluginABC.album_info", arg |-> web_links,
            asin |-> PluginABC_asin(web_links)]
    /\ UNCHANGED <<web_links, lyrics_vars, genres_vars, artists_vars, album_vars, lookup_vars>>

NextLinks == GetAsin \/ PluginABCAsin

SpecLinks == InitLinks /\ [][NextLinks]_vars

\* the lookup starts from an id and from what the server will answer: an
\* HTTP error, or an album without or with one track and a song
InitLookup ==
    /\ \E id \in LookupIdStrings, status \in {"ok", "HTTPError"},
          k \in 0..1, l \in SongLyrics :
          \E entries \in [1..k -> FirstDiscEntries] :
              lookup = [id |-> id,
                        response |->
                            [status |-> status,
                             album |-> [NoAlbum EXCEPT !.tracks = WithSongIds(entries)],
                             song |-> [id |-> 1, lyrics |-> l]]]
    /\ lookup_result = NoLookupResult
    /\ IdleLyrics /\ IdleGenres /\ IdleArtists /\ IdleAlbum /\ IdleLinks

AlbumForId ==
    /\ lookup_result' =
           [op |-> "album_for_id", arg |-> lookup]
           @@ album_for_id(lookup.id, lookup.response, ignore_video_tracks, FALSE,
                           language_preference)
    /\ UNCHANGED <<lookup, lyrics_vars, genres_vars, artists_vars, album_vars, links_vars>>

TrackForId ==
    /\ lookup_result' =
           [op |-> "track_for_id", arg |-> lookup]
           @@ track_for_id(lookup.id, lookup.response, language_preference)
    /\ UNCHANGED <<lookup, lyrics_vars, genres_vars, artists_vars, album_vars, links_vars>>

NextLookup == AlbumForId \/ TrackForId

SpecLookup == InitLookup /\ [][NextLookup]_vars

(***************************************************************************)
(* Properties of the lyrics selector                                       *)
(***************************************************************************)
LyricsCalled == lyrics_result.op = "get_lyrics"
FallbackCalled == lyrics_result.op = "get_fallback_lyrics"

\* the variants that record a source language: kind Original with en or ja
SourceVariants(list) ==
    SelectSeq(list, LAMBDA v : /\ v.translation_type = ORIGINAL
                               /\ v.culture_codes \cap {"en", "ja"} # {})

SourcePair(list) ==
    LET src == SourceVariants(list)
    IN  IF src = <<>> THEN <<None, None>>
        ELSE IF "en" \in src[Len(src)].culture_codes THEN <<"Latn", "eng">>
        ELSE <<"Jpan", "jpn">>

\* the variant list of test_get_lyrics: [ja/Original, en/Translation, ''/Romanized]
TestLyrics ==
    <<[translation_type |-> ORIGINAL, culture_codes |-> {"ja"}, value |-> "lyrics1"],
      [translation_type |-> TRANSLATION, culture_codes |-> {"en"}, value |-> "lyrics2"],
      [translation_type |-> ROMANIZED, culture_codes |-> {""}, value |-> "lyrics3"]>>

\* C5: the (script, language) pair get_lyrics returns is the same under all
\* four language preferences, and is fixed by the Original variants that
\* carry en (Latn/eng) or ja (Jpan/jpn) alone; for [ja/Original,
\* en/Translation, ''/Romanized] it is (Jpan, jpn) under every preference.
C5_ScriptIndependentOfPreference ==
    LyricsCalled =>
        /\ <<lyrics_result.script, lyrics_result.language>> = SourcePair(lyrics_result.arg)
        /\ \A p \in ContentLanguagePreference :
               LET r == get_lyrics(lyrics_result.arg, p)
                   t == get_lyrics(TestLyrics, p)
               IN  /\ r.script = lyrics_result.script
                   /\ r.language = lyrics_result.language
                   /\ t.script = "Jpan" /\ t.language = "jpn"

\* C5 witness: [ja/Original, en/Translation] under English gives (Jpan, jpn)
\* although the text comes from the en variant
C5_Witness ==
    /\ LyricsCalled
    /\ language_preference = ENGLISH
    /\ Len(lyrics_result.arg) = 2
    /\ lyrics_result.arg[1].translation_type = ORIGINAL
    /\ lyrics_result.arg[1].culture_codes = {"ja"}
    /\ lyrics_result.arg[2].translation_type = TRANSLATION
    /\ lyrics_result.arg[2].culture_codes = {"en"}
    /\ lyrics_result.arg[2].value = "lyrics2"
    /\ lyrics_result.lyrics = "lyrics2"
    /\ lyrics_result.script = "Jpan" /\ lyrics_result.language = "jpn"

\* a variant matches the preference
Matches(v, pref) ==
    \/ pref = ENGLISH /\ "en" \in v.culture_codes
    \/ pref = JAPANESE /\ "ja" \in v.culture_codes /\ "en" \notin v.culture_codes
    \/ /\ pref = ROMAJI
       /\ v.culture_codes \cap {"en", "ja"} = {}
       /\ v.translation_type = ROMANIZED

MatchingIndexes(list, pref) == {i \in 1..Len(list) : Matches(list[i], pref)}
LastMatch(list, pref) ==
    CHOOSE i \in MatchingIndexes(list, pref) :
        \A j \in MatchingIndexes(list, pref) : j <= i

\* C6 as claimed: if some matching variant has non-empty text, the text
\* returned is that of the last matching variant.
C6_LastMatchOfAnyText ==
    (/\ LyricsCalled
     /\ \E i \in MatchingIndexes(lyrics_result.arg, language_preference) :
            Truthy(lyrics_result.arg[i].value))
    => lyrics_result.lyrics =
           lyrics_result.arg[LastMatch(lyrics_result.arg, language_preference)].value

\* C6 amended: if the last variant that matches the preference has non-empty
\* text, the text returned is that variant's text.
C6_LastMatchWins ==
    (/\ LyricsCalled
     /\ MatchingIndexes(lyrics_result.arg, language_preference) # {}
     /\ Truthy(lyrics_result.arg[LastMatch(lyrics_result.arg, language_preference)].value))
    => lyrics_result.lyrics =
           lyrics_result.arg[LastMatch(lyrics_result.arg, language_preference)].value

\* C6 witness: two matching variants with different texts, the later one returned
C6_Witness ==
    /\ LyricsCalled
    /\ \E i, j \in MatchingIndexes(lyrics_result.arg, language_preference) :
           /\ i < j
           /\ j = LastMatch(lyrics_result.arg, language_preference)
           /\ Truthy(lyrics_result.arg[i].value)
           /\ Truthy(lyrics_result.arg[j].value)
           /\ lyrics_result.arg[i].value # lyrics_result.arg[j].value
           /\ lyrics_result.lyrics = lyrics_result.arg[j].value

\* the text of the first variant (lowest index) that satisfies Test, or else
FirstOr(list, Test(_), else) ==
    LET S == {i \in 1..Len(list) : Test(list[i])}
    IN  IF S = {} THEN else
        ELSE list[CHOOSE i \in S : \A j \in S : i <= j].value

HasEn(v) == "en" \in v.culture_codes
IsRomanized(v) == v.translation_type = ROMANIZED
IsOriginal(v) == v.translation_type = ORIGINAL

\* the fallback chain as the specification states it
ExpectedFallback(list, pref) ==
    LET first == IF list = <<>> THEN None ELSE list[1].value
    IN  CASE pref = ENGLISH -> FirstOr(list, HasEn, FirstOr(list, IsRomanized, first))
          [] pref = ROMAJI -> FirstOr(list, IsRomanized, first)
          [] pref = DEFAULT -> FirstOr(list, IsOriginal, first)
          [] pref = JAPANESE -> first

\* C7: the fallback text is, under English, that of the first en variant, else
\* of the first Romanized variant, else of the first variant; under Romaji that
\* of the first Romanized variant, else the first; under Default that of the
\* first Original variant, else the first; under Japanese the first variant's;
\* None for an empty list.  get_lyrics returns it when no variant matched.
C7_FallbackChain ==
    /\ FallbackCalled =>
           lyrics_result.lyrics = ExpectedFallback(lyrics_result.arg, language_preference)
    /\ (LyricsCalled /\ MatchingIndexes(lyrics_result.arg, language_preference) = {}) =>
           lyrics_result.lyrics = ExpectedFallback(lyrics_result.arg, language_preference)

\* C7 witness: under English nothing matches and a Romanized variant that is
\* not the first one supplies the text
C7_Witness ==
    /\ LyricsCalled
    /\ language_preference = ENGLISH
    /\ MatchingIndexes(lyrics_result.arg, ENGLISH) = {}
    /\ Len(lyrics_result.arg) >= 2
    /\ ~IsRomanized(lyrics_result.arg[1])
    /\ IsRomanized(lyrics_result.arg[2])
    /\ Truthy(lyrics_result.arg[2].value)
    /\ lyrics_result.arg[1].value # lyrics_result.arg[2].value
    /\ lyrics_result.lyrics = lyrics_result.arg[2].value

\* the selection leaves every variant's set of locale codes as it was
GetLyricsLeavesCodesUnchanged ==
    LyricsCalled => remote_lyrics_list = lyrics_result.arg

\* a variant whose codes are neither en nor ja has lost them after the call
GetLyricsChangesCodes ==
    /\ LyricsCalled
    /\ Len(lyrics_result.arg) = 1
    /\ lyrics_result.arg[1].culture_codes = {""}
    /\ remote_lyrics_list[1].culture_codes = {}

\* a second call, on the variants as the first call left them, returns what
\* the first call returned
GetLyricsTwiceEqual ==
    LyricsCalled =>
        get_lyrics(remote_lyrics_list, language_preference)
            = get_lyrics(lyrics_result.arg, language_preference)

\* script and language after the first k variants of the argument
ScriptAfter(k) ==
    LET r == get_lyrics(SubSeq(lyrics_result.arg, 1, k), language_preference)
    IN  <<r.script, r.language>>

\* C22: once a variant has set script and language, no later variant of the
\* list changes them.
C22_ScriptSetOnce ==
    LyricsCalled =>
        \A k \in 1..Len(lyrics_result.arg) :
            ScriptAfter(k) # <<None, None>> =>
                \A m \in k..Len(lyrics_result.arg) : ScriptAfter(m) = ScriptAfter(k)

\* an Original variant in ja followed by an Original variant in en: the
\* second one replaces Jpan/jpn by Latn/eng
LaterOriginalOverwritesScript ==
    /\ LyricsCalled
    /\ Len(lyrics_result.arg) = 2
    /\ lyrics_result.arg[1].translation_type = ORIGINAL
    /\ lyrics_result.arg[1].culture_codes = {"ja"}
    /\ lyrics_result.arg[2].translation_type = ORIGINAL
    /\ lyrics_result.arg[2].culture_codes = {"en"}
    /\ ScriptAfter(1) = <<"Jpan", "jpn">>
    /\ lyrics_result.script = "Latn" /\ lyrics_result.language = "eng"

\* variants that are not of kind Original leave script and language alone
OnlyOriginalSetsScript ==
    LyricsCalled =>
        \A k \in 1..Len(lyrics_result.arg) :
            lyrics_result.arg[k].translation_type # ORIGINAL =>
                ScriptAfter(k) = ScriptAfter(k - 1)

(***************************************************************************)
(* Properties of the artist categoriser                                    *)
(***************************************************************************)
ArtistsCalled ==
    /\ artists_result.op \in {"get_album_artists", "get_track_artists"}
    /\ artists_result.arg # <<>>

TrackArtistsCalled ==
    artists_result.op = "get_track_artists" /\ artists_result.arg # <<>>

Named(credit) == Truthy(ResolveName(credit)[1])

\* the credit carries the role itself, or is a producer or band whose
\* Default role stands for it
CarriesRole(credit, role) ==
    \/ role \in credit.effective_roles
    \/ IsProducerOrBand(credit) /\ ROLE_DEFAULT \in credit.effective_roles

\* the (name, id) pairs, in credit order, of the named credits with the role
OwnCredits(arg, role) ==
    LET own == SelectSeq(arg, LAMBDA c : Named(c) /\ CarriesRole(c, role))
    IN  [i \in 1..Len(own) |-> ResolveName(own[i])]

NoProducerOrBand(arg) == \A i \in 1..Len(arg) : ~IsProducerOrBand(arg[i])

SomeVocalist(arg) == \E i \in 1..Len(arg) : VOCALIST \in arg[i].categories

RoleBucketOK(own, bucket, producers) ==
    IF own = <<>> THEN bucket = producers ELSE bucket = own

\* C1: when no credit is a Producer/Band and some credit is a Vocalist, the
\* producers bucket equals the vocalists bucket; each of arrangers, composers
\* and lyricists that received no credit of its own equals the producers
\* bucket, and one that received credits holds exactly those credits.
C1_FallbackChain ==
    ArtistsCalled =>
        LET arg == artists_result.arg
            b == artists_result.categorized.by_categories
        IN  /\ (NoProducerOrBand(arg) /\ SomeVocalist(arg)) => b.producers = b.vocalists
            /\ RoleBucketOK(OwnCredits(arg, ARRANGER), b.arrangers, b.producers)
            /\ RoleBucketOK(OwnCredits(arg, COMPOSER), b.composers, b.producers)
            /\ RoleBucketOK(OwnCredits(arg, LYRICIST), b.lyricists, b.producers)

\* vocalists replace the missing producers, composers falls back to them and
\* arrangers keeps the credit it received
C1_Witness ==
    /\ ArtistsCalled
    /\ NoProducerOrBand(artists_result.arg) /\ SomeVocalist(artists_result.arg)
    /\ LET b == artists_result.categorized.by_categories
       IN  /\ b.vocalists # <<>> /\ b.producers = b.vocalists
           /\ b.composers = b.producers
           /\ b.arrangers # <<>> /\ b.arrangers # b.producers

ProducerIndexes(arg) == {i \in 1..Len(arg) : IsProducerOrBand(arg[i])}

\* the credit list has one producer, and its effective roles are {Default}
OneDefaultProducer(arg) ==
    /\ Cardinality(ProducerIndexes(arg)) = 1
    /\ \A i \in ProducerIndexes(arg) : arg[i].effective_roles = {ROLE_DEFAULT}

TheProducer(arg) == arg[CHOOSE i \in ProducerIndexes(arg) : TRUE]

RoleString(arg, role) == JoinNames(PairNames(OwnCredits(arg, role)))

C3_ManyMainArtistsGiveVaLabel ==
    (ArtistsCalled /\ Len(artists_result.main_artists) > 5) =>
        artists_result.artist = VA_NAME

\* more than five main artists, featured artists requested and present
C3_Witness ==
    /\ ArtistsCalled
    /\ Len(artists_result.main_artists) > 5
    /\ artists_result.include_featured_artists
    /\ artists_result.featured_artists # <<>>
    /\ artists_result.categorized.by_categories.vocalists # <<>>

\* C4 as stated: for a compilation the main-artist list is the one-element
\* list [VA label], and without featured artists the display string equals
\* the VA label for every credit list, the empty one included.
C4_CompilationIsVaLabel ==
    (artists_result.op = "get_album_artists" /\ artists_result.comp) =>
        /\ artists_result.arg # <<>> => artists_result.main_artists = <<VA_NAME>>
        /\ ~artists_result.include_featured_artists => artists_result.artist = VA_NAME

\* C16: after the categorisation every input credit holds the effective roles
\* and the categories it had before the call.
C16_CategorizeLeavesInputUnchanged ==
    ArtistsCalled => remote_artists = artists_result.arg

\* one credit of category Producer with the Default role: after the call its
\* effective roles hold Arranger, Composer and Lyricist as well
CategorizeExpandsInputRoles ==
    /\ ArtistsCalled
    /\ Len(artists_result.arg) = 1
    /\ artists_result.arg[1].categories = {PRODUCER}
    /\ artists_result.arg[1].effective_roles = {ROLE_DEFAULT}
    /\ remote_artists[1].effective_roles = {ROLE_DEFAULT} \cup producer_roles
    /\ remote_artists[1].categories = artists_result.arg[1].categories

\* a second call, on the credits as the first call left them, returns what
\* the first call returned
CategorizeTwiceEqual ==
    ArtistsCalled =>
        /\ categorize_artists(remote_artists) = categorize_artists(artists_result.arg)
        /\ get_track_artists(remote_artists) = get_track_artists(artists_result.arg)
        /\ \A comp, feat \in BOOLEAN :
               get_album_artists(remote_artists, comp, feat)
                   = get_album_artists(artists_result.arg, comp, feat)

\* the names of the vocalists bucket whose (name, id) pair is creditable
CreditableVocalists ==
    PairNames(SelectSeq(artists_result.categorized.by_categories.vocalists,
                        LAMBDA pair : pair \notin artists_result.categorized.not_creditable))

FeatCondition ==
    /\ artists_result.include_featured_artists
    /\ artists_result.categorized.by_categories.vocalists # <<>>
    /\ (artists_result.comp \/ artists_result.main_artists # <<>>)
    /\ CreditableVocalists # <<>>
    /\ Len(artists_result.main_artists) + Len(CreditableVocalists) <= 5

\* C17: the artist string is the main part followed by " feat. " and the
\* creditable vocalist names, in bucket order and joined by ", ", exactly when
\* featured artists are included, the vocalists bucket is not empty, the
\* album is a compilation or has main artists, some vocalist is creditable and
\* main and featured names together are at most five; otherwise it is the
\* main part alone.
C17_FeatSuffix ==
    ArtistsCalled =>
        artists_result.artist =
            (IF Len(artists_result.main_artists) > 5 THEN VA_NAME
             ELSE JoinNames(artists_result.main_artists))
            \o (IF FeatCondition THEN " feat. " \o JoinNames(CreditableVocalists) ELSE "")

\* C17 witness: a supporting vocalist A and a creditable vocalist B; the
\* suffix names the creditable vocalist only
C17_Witness ==
    /\ ArtistsCalled /\ FeatCondition
    /\ PairNames(artists_result.categorized.by_categories.vocalists) = <<"A", "B">>
    /\ CreditableVocalists = <<"B">>
    /\ artists_result.artist = "B feat. B"

\* the suffix is left out because main and featured names exceed five
FeatSuffixDroppedOverFive ==
    /\ ArtistsCalled
    /\ artists_result.include_featured_artists
    /\ CreditableVocalists # <<>>
    /\ Len(artists_result.main_artists) <= 5
    /\ Len(artists_result.main_artists) + Len(CreditableVocalists) > 5
    /\ artists_result.artist = JoinNames(artists_result.main_artists)

\* the suffix is left out because featured artists are not included
FeatSuffixDroppedNotIncluded ==
    /\ ArtistsCalled
    /\ ~artists_result.include_featured_artists
    /\ CreditableVocalists # <<>>
    /\ artists_result.artist = JoinNames(artists_result.main_artists)

NotCreditable(credit) ==
    credit.is_support \/ {NOTHING, LABEL} \cap credit.categories # {}

Entries(seq) == {seq[i] : i \in 1..Len(seq)}

\* the names of the main and of the featured artists
DisplayedNames ==
    Entries(artists_result.main_artists) \cup Entries(artists_result.featured_artists)

\* the buckets that hold the pair
BucketsHolding(pair) ==
    LET b == artists_result.categorized.by_categories
    IN  {k \in DOMAIN b : pair \in Entries(b[k])}

\* the buckets the credit's own categories and roles put it in
OwnBuckets(credit) ==
    (IF IsProducerOrBand(credit) THEN {"producers"} ELSE {})
    \cup (IF CIRCLE \in credit.categories THEN {"circles"} ELSE {})
    \cup (IF VOCALIST \in credit.categories THEN {"vocalists"} ELSE {})
    \cup (IF CarriesRole(credit, ARRANGER) THEN {"arrangers"} ELSE {})
    \cup (IF CarriesRole(credit, COMPOSER) THEN {"composers"} ELSE {})
    \cup (IF CarriesRole(credit, LYRICIST) THEN {"lyricists"} ELSE {})

NotCreditableCredits(arg) ==
    {i \in 1..Len(arg) : Named(arg[i]) /\ NotCreditable(arg[i])}

\* C18: the name of a credit marked as support, or of category Nothing or
\* Label, is not among the main or featured names, and it is among the names
\* of all artists.
C18_FilteredFromDisplayOnly ==
    ArtistsCalled =>
        \A i \in NotCreditableCredits(artists_result.arg) :
            LET pair == ResolveName(artists_result.arg[i])
            IN  /\ pair[1] \notin DisplayedNames
                /\ pair[1] \in Entries(artists_result.artists)

\* C18 amended: a credit marked as support, or of category Nothing or Label,
\* has its (name, id) pair in the not-creditable set; its name is among the
\* main or featured names only if a credit with the same name and another id
\* is creditable; it is in every bucket its own categories and roles put it
\* in; and when some bucket holds it, its name is among the names of all
\* artists and in the arranger, composer and lyricist strings of the buckets
\* that hold it.
C18_PairFilteredFromDisplayOnly ==
    ArtistsCalled =>
        \A i \in NotCreditableCredits(artists_result.arg) :
            LET arg == artists_result.arg
                b == artists_result.categorized.by_categories
                pair == ResolveName(arg[i])
            IN  /\ pair \in artists_result.categorized.not_creditable
                /\ pair[1] \in DisplayedNames =>
                       \E j \in 1..Len(arg) :
                           /\ Named(arg[j]) /\ ~NotCreditable(arg[j])
                           /\ ResolveName(arg[j])[1] = pair[1]
                           /\ ResolveName(arg[j])[2] # pair[2]
                /\ OwnBuckets(arg[i]) \subseteq BucketsHolding(pair)
                /\ BucketsHolding(pair) # {} => pair[1] \in Entries(artists_result.artists)
                /\ TrackArtistsCalled =>
                       /\ artists_result.arranger = JoinOrNone(b.arrangers)
                       /\ artists_result.composer = JoinOrNone(b.composers)
                       /\ artists_result.lyricist = JoinOrNone(b.lyricists)

\* C18 witness: a supporting producer A beside a creditable vocalist B: A is
\* not displayed, and is the arranger, composer and lyricist and among all names
C18_Witness ==
    /\ TrackArtistsCalled
    /\ Len(artists_result.arg) = 2
    /\ artists_result.arg[1].is_support
    /\ ResolveName(artists_result.arg[1]) = <<"A", "1">>
    /\ BucketsHolding(<<"A", "1">>) = {"producers", "arrangers", "composers", "lyricists"}
    /\ artists_result.main_artists = <<"B">>
    /\ artists_result.arranger = "A" /\ artists_result.composer = "A"
    /\ artists_result.lyricist = "A"
    /\ artists_result.artists = <<"A", "B">>

\* a supporting vocalist A of the database beside a creditable custom
\* vocalist of the same name: the name A is displayed
SameNameCreditDisplayed ==
    /\ ArtistsCalled
    /\ Len(artists_result.arg) = 2
    /\ artists_result.arg[1].is_support
    /\ ResolveName(artists_result.arg[1]) = <<"A", "1">>
    /\ ResolveName(artists_result.arg[2]) = <<"A", "">>
    /\ ~artists_result.comp
    /\ artists_result.main_artists = <<"A">>

\* a Label credit alone is in no bucket and not among the names of all artists
LabelCreditInNoBucket ==
    /\ ArtistsCalled
    /\ Len(artists_result.arg) = 1
    /\ artists_result.arg[1].categories = {LABEL}
    /\ Named(artists_result.arg[1])
    /\ BucketsHolding(ResolveName(artists_result.arg[1])) = {}
    /\ artists_result.artists = <<>>

\* a credit of category Nothing with the Composer role is not displayed and
\* is the composer
NothingCreditInBucket ==
    /\ TrackArtistsCalled
    /\ Len(artists_result.arg) = 2
    /\ artists_result.arg[1].categories = {NOTHING}
    /\ ResolveName(artists_result.arg[1])[1] = "A"
    /\ "A" \notin DisplayedNames
    /\ artists_result.composer = "A"

\* the position of the first pair that carries the name
FirstPosition(pairs, name) ==
    CHOOSE i \in 1..Len(pairs) :
        /\ pairs[i][1] = name
        /\ \A j \in 1..(i - 1) : pairs[j][1] # name

\* names lists every name of pairs once, in the order of first occurrence
\* in pairs, and ids has for each name an id that some pair gives it
ListsEachNameOnce(names, ids, pairs) ==
    /\ Entries(names) = {pairs[i][1] : i \in 1..Len(pairs)}
    /\ \A i, j \in 1..Len(names) :
           i < j => FirstPosition(pairs, names[i]) < FirstPosition(pairs, names[j])
    /\ Len(ids) = Len(names)
    /\ \A i \in 1..Len(names) : <<names[i], ids[i]>> \in Entries(pairs)

\* C19: the names of all artists are the names of the buckets, each once, in
\* the order of first occurrence when the buckets are traversed as producers,
\* circles, vocalists, arrangers, composers, lyricists; the ids are as many,
\* each one paired with the name at its position.
C19_NamesInClaimedBucketOrder ==
    ArtistsCalled =>
        LET b == artists_result.categorized.by_categories
        IN  ListsEachNameOnce(artists_result.artists, artists_result.artists_ids,
                b.producers \o b.circles \o b.vocalists
                \o b.arrangers \o b.composers \o b.lyricists)

\* C19 amended: the same with the buckets traversed as producers, composers,
\* arrangers, lyricists, circles, vocalists.
C19_NamesInBucketOrder ==
    ArtistsCalled =>
        LET b == artists_result.categorized.by_categories
        IN  ListsEachNameOnce(artists_result.artists, artists_result.artists_ids,
                b.producers \o b.composers \o b.arrangers
                \o b.lyricists \o b.circles \o b.vocalists)

\* C19 witness: an arranger A and a circle B, credited in either order, are
\* listed as A, B with their ids
C19_Witness ==
    /\ ArtistsCalled
    /\ LET b == artists_result.categorized.by_categories
       IN  /\ b.producers = <<>>
           /\ b.arrangers = << <<"A", "1">> >>
           /\ b.circles = << <<"B", "2">> >>
    /\ ResolveName(artists_result.arg[1]) = <<"B", "2">>
    /\ artists_result.artists = <<"A", "B">>
    /\ artists_result.artists_ids = <<"1", "2">>

\* all bucket entries in merge order
MergedPairs ==
    LET b == artists_result.categorized.by_categories
    IN  b.producers \o b.composers \o b.arrangers \o b.lyricists \o b.circles \o b.vocalists

\* the names that the buckets hold with more than one id
NamesWithSeveralIds ==
    {pair[1] : pair \in {p \in Entries(MergedPairs) :
                            \E q \in Entries(MergedPairs) : q[1] = p[1] /\ q[2] # p[2]}}

Occurrences(pairs, name) == {i \in 1..Len(pairs) : pairs[i][1] = name}

\* C20: when the buckets hold one name with different ids, no bucket holds
\* the name more than once, and the id listed for the name is the id of its
\* first occurrence in merge order.
C20_FirstSeenIdWins ==
    ArtistsCalled =>
        \A name \in NamesWithSeveralIds :
            LET b == artists_result.categorized.by_categories
            IN  /\ \A k \in DOMAIN b : Cardinality(Occurrences(b[k], name)) <= 1
                /\ \A i \in 1..Len(artists_result.artists) :
                       artists_result.artists[i] = name =>
                           artists_result.artists_ids[i]
                               = MergedPairs[FirstPosition(MergedPairs, name)][2]

\* the vocalist A of the database (id 1) followed by a custom vocalist A: the
\* vocalists bucket holds A twice and the id listed for A is the empty one
LastSeenIdListed ==
    /\ ArtistsCalled
    /\ artists_result.categorized.by_categories.vocalists = << <<"A", "1">>, <<"A", "">> >>
    /\ artists_result.artists = <<"A">>
    /\ artists_result.artists_ids = <<"">>

\* the id listed for a name is the id of its last occurrence in merge order
LastSeenIdWins ==
    ArtistsCalled =>
        \A i \in 1..Len(artists_result.artists) :
            LET at == Occurrences(MergedPairs, artists_result.artists[i])
                last == CHOOSE p \in at : \A q \in at : q <= p
            IN  artists_result.artists_ids[i] = MergedPairs[last][2]

\* the id listed for the name, "" when the name is not listed
ListedId(name) ==
    IF \E i \in 1..Len(artists_result.artists) : artists_result.artists[i] = name
    THEN artists_result.artists_ids[
             CHOOSE i \in 1..Len(artists_result.artists) : artists_result.artists[i] = name]
    ELSE ""

\* the positions of a sequence of ids that hold a non-empty id
NonEmptyAt(ids) == {i \in 1..Len(ids) : ids[i] # "" /\ ids[i] # None}

Least(S) == CHOOSE i \in S : \A j \in S : i <= j

\* C21: the artist id is the id of the first name, main artists before
\* featured artists, that is listed with a non-empty id; without such a name
\* it is the first non-empty id of the list of ids; without a non-empty id
\* it is None.
C21_PrimaryArtistId ==
    ArtistsCalled =>
        LET shown == artists_result.main_artists \o artists_result.featured_artists
            shown_ids == [i \in 1..Len(shown) |-> ListedId(shown[i])]
        IN  artists_result.artist_id =
                IF NonEmptyAt(shown_ids) # {}
                THEN shown_ids[Least(NonEmptyAt(shown_ids))]
                ELSE IF NonEmptyAt(artists_result.artists_ids) # {}
                THEN artists_result.artists_ids[Least(NonEmptyAt(artists_result.artists_ids))]
                ELSE None

\* C21 witness: the only main artist is a custom credit without an id, and
\* the id is that of a later listed artist
C21_Witness ==
    /\ ArtistsCalled
    /\ artists_result.main_artists = <<"A">>
    /\ artists_result.featured_artists = <<>>
    /\ artists_result.artists = <<"A", "B">>
    /\ artists_result.artists_ids = <<"", "2">>
    /\ artists_result.artist_id = "2"

\* the first displayed name has no id and the second one gives the id
PrimaryIdFromSecondName ==
    /\ ArtistsCalled
    /\ Len(artists_result.main_artists) >= 2
    /\ ListedId(artists_result.main_artists[1]) = ""
    /\ artists_result.artist_id = ListedId(artists_result.main_artists[2])
    /\ artists_result.artist_id # ""

\* no listed id is non-empty and the id is None
PrimaryIdNone ==
    /\ ArtistsCalled
    /\ artists_result.artists # <<>>
    /\ NonEmptyAt(artists_result.artists_ids) = {}
    /\ artists_result.artist_id = None

\* the names of the artist string: the main artists, and the featured ones
\* when the suffix is appended; none when the string is the VA label
NamesOfArtistString ==
    IF Len(artists_result.main_artists) > 5 THEN <<>>
    ELSE artists_result.main_artists
         \o (IF Len(artists_result.main_artists) + Len(artists_result.featured_artists) <= 5
             THEN artists_result.featured_artists ELSE <<>>)

\* C29: no name occurs more than once in the artist string of an album or
\* track that is not a compilation: a credit that is both producer (or band)
\* and circle is listed once, and no main artist is listed again after
\* " feat. ".
C29_NoNameTwice ==
    (ArtistsCalled /\ ~artists_result.comp) =>
        \A i, j \in 1..Len(NamesOfArtistString) :
            i # j => NamesOfArtistString[i] # NamesOfArtistString[j]

\* one vocalist and no producer: the vocalist is main and featured artist
VocalistListedTwice ==
    /\ TrackArtistsCalled
    /\ Len(artists_result.arg) = 1
    /\ artists_result.arg[1].categories = {VOCALIST}
    /\ ~artists_result.arg[1].is_support
    /\ ResolveName(artists_result.arg[1]) = <<"A", "1">>
    /\ artists_result.artist = "A feat. A"

\* one credit that is band and circle: listed twice among the main artists
BandCircleListedTwice ==
    /\ ArtistsCalled /\ ~artists_result.comp
    /\ Len(artists_result.arg) = 1
    /\ artists_result.arg[1].categories = {BAND, CIRCLE}
    /\ ResolveName(artists_result.arg[1]) = <<"B", "2">>
    /\ artists_result.artist = "B, B"

(***************************************************************************)
(* Properties of the album and track reconciliation                        *)
(***************************************************************************)
AlbumReturned == album_result.returned = "AlbumInfo"

MapperReturned == AlbumReturned /\ album_result.op = "Mapper.album_info"

PluginABCReturned == AlbumReturned /\ album_result.op = "PluginABC.album_info"

\* the numbers of the discs of the album that are marked Video
VideoDiscNumbers(album) ==
    {album.discs[k].disc_number :
        k \in {j \in 1..Len(album.discs) : album.discs[j].media_type = VIDEO}}

EmittedIds == {album_result.tracks[i].track_id : i \in 1..Len(album_result.tracks)}

\* the ids of the songs embedded in the tracks that are not on a Video disc
AudioSongIds(album) ==
    {ToString(album.tracks[i].song[1].id) :
        i \in {j \in 1..Len(album.tracks) :
                 /\ album.tracks[j].song # <<>>
                 /\ album.tracks[j].disc_number \notin VideoDiscNumbers(album)}}

VideoDiscsExcluded ==
    /\ \A i \in 1..Len(album_result.tracks) :
           album_result.tracks[i].medium \notin VideoDiscNumbers(album_result.arg)
    /\ EmittedIds = AudioSongIds(album_result.arg)
    /\ Len(album_result.tracks) = Cardinality(AudioSongIds(album_result.arg))

\* C8 as stated: with ignore_video_tracks set, no emitted track has the
\* medium of a Video disc and the emitted tracks are exactly the tracks, with
\* an embedded song, of the other discs.
C8_VideoDiscsExcluded ==
    (AlbumReturned /\ album_result.ignore_video_tracks) => VideoDiscsExcluded

\* what PluginABC.album_info, which ignores discs by their number, returns
PluginABC_VideoDiscsExcluded ==
    (PluginABCReturned /\ album_result.ignore_video_tracks) => VideoDiscsExcluded

\* tracks on discs [1, 1, 2] and disc 2 Video
DiscExample(album) ==
    /\ Len(album.tracks) = 3
    /\ \A i \in 1..3 : album.tracks[i].song # <<>>
    /\ [i \in 1..3 |-> album.tracks[i].disc_number] = <<1, 1, 2>>
    /\ Len(album.discs) = 2
    /\ [k \in 1..2 |-> album.discs[k].disc_number] = <<1, 2>>
    /\ [k \in 1..2 |-> album.discs[k].media_type] = <<AUDIO, VIDEO>>

\* the example of the claim holds for both implementations
C8_ExampleHolds ==
    (album_result.op # "none" /\ album_result.ignore_video_tracks
         /\ DiscExample(album_result.arg)) =>
        /\ AlbumReturned
        /\ [i \in 1..Len(album_result.tracks) |-> album_result.tracks[i].medium] = <<1, 1>>

\* every disc entry stands at the place of its number and the tracks of a
\* disc follow one another
DiscsAligned(album) ==
    /\ \A k \in 1..Len(album.discs) : album.discs[k].disc_number = k
    /\ \A i, j \in 1..Len(album.tracks) :
           (i < j /\ album.tracks[i].disc_number = album.tracks[j].disc_number) =>
               \A m \in i..j : album.tracks[m].disc_number = album.tracks[i].disc_number

\* Mapper.get_album_track_infos looks a disc up by position: it excludes the
\* Video discs when the disc list is aligned with the disc numbers
Mapper_VideoDiscsExcluded_Aligned ==
    (MapperReturned /\ album_result.ignore_video_tracks
         /\ DiscsAligned(album_result.arg)) => VideoDiscsExcluded

\* tracks on discs [1, 1, 2], the disc list [disc 2 Video, disc 1 Audio]:
\* Mapper emits the one track of the Video disc and drops the other two
Mapper_EmitsVideoDisc ==
    /\ MapperReturned /\ album_result.ignore_video_tracks
    /\ Len(album_result.arg.tracks) = 3
    /\ \A i \in 1..3 : album_result.arg.tracks[i].song # <<>>
    /\ [i \in 1..3 |-> album_result.arg.tracks[i].disc_number] = <<1, 1, 2>>
    /\ [k \in 1..Len(album_result.arg.discs) |->
           <<album_result.arg.discs[k].disc_number, album_result.arg.discs[k].media_type>>]
           = << <<2, VIDEO>>, <<1, AUDIO>> >>
    /\ [i \in 1..Len(album_result.tracks) |-> album_result.tracks[i].medium] = <<2>>

\* the example of the claim, reached with two tracks returned
C8_ExampleReached ==
    /\ AlbumReturned /\ album_result.ignore_video_tracks
    /\ DiscExample(album_result.arg)
    /\ Len(album_result.tracks) = 2

\* the script a track has by its own song
OwnScript(album, track_id) ==
    LET i == CHOOSE j \in 1..Len(album.tracks) :
                 album.tracks[j].song # <<>>
                 /\ ToString(album.tracks[j].song[1].id) = track_id
    IN  get_lyrics(album.tracks[i].song[1].lyrics, language_preference).script

\* two emitted tracks have different non-empty scripts of their own
ScriptsConflict ==
    \E i, j \in 1..Len(album_result.tracks) :
        LET si == OwnScript(album_result.arg, album_result.tracks[i].track_id)
            sj == OwnScript(album_result.arg, album_result.tracks[j].track_id)
        IN  Truthy(si) /\ Truthy(sj) /\ si # sj

AllUnified ==
    /\ \A i \in 1..Len(album_result.tracks) :
           /\ album_result.tracks[i].script = "Qaaa"
           /\ album_result.tracks[i].language = "mul"
    /\ album_result.script = "Qaaa"
    /\ album_result.language = "mul"

\* C9 as stated: if two emitted tracks of an album have different non-empty
\* scripts, every emitted track has script "Qaaa" and language "mul", and so
\* has the album.
C9_ScriptUnification == (AlbumReturned /\ ScriptsConflict) => AllUnified

\* what PluginABC.get_album_track_infos, which unifies, returns; without a
\* conflict every track keeps its own script
PluginABC_ScriptUnification ==
    PluginABCReturned =>
        IF ScriptsConflict THEN AllUnified
        ELSE \A i \in 1..Len(album_result.tracks) :
                 album_result.tracks[i].script =
                     OwnScript(album_result.arg, album_result.tracks[i].track_id)

\* scripts [Latn, Jpan, Latn] unified by PluginABC
PluginABC_UnifiedExample ==
    /\ PluginABCReturned /\ AllUnified
    /\ Len(album_result.tracks) = 3
    /\ [i \in 1..3 |-> OwnScript(album_result.arg, album_result.tracks[i].track_id)]
           = <<"Latn", "Jpan", "Latn">>

\* scripts [Latn, Jpan, Latn] returned by Mapper
Mapper_ExampleNotUnified ==
    /\ MapperReturned
    /\ [i \in 1..Len(album_result.tracks) |-> album_result.tracks[i].script]
           = <<"Latn", "Jpan", "Latn">>
    /\ album_result.script = None

AlbumCalled == album_result.op # "none"

\* C12 as stated: no mapping call ends in an error, also for an album whose
\* tracks are not ordered by disc number or whose disc list has no entry for
\* the disc number of some track.
C12_NoMappingError == AlbumCalled => album_result.returned \in {"None", "AlbumInfo"}

TrackDiscNumbers(album) == [i \in 1..Len(album.tracks) |-> album.tracks[i].disc_number]

\* tracks on discs [1, 2] and a disc list with the entry of disc 1 only:
\* Mapper.album_info raises IndexError
Mapper_RaisesOnMissingDisc ==
    /\ album_result.op = "Mapper.album_info"
    /\ TrackDiscNumbers(album_result.arg) = <<1, 2>>
    /\ Len(album_result.arg.discs) = 1
    /\ album_result.arg.discs[1].disc_number = 1
    /\ album_result.arg.discs[1].media_type = AUDIO
    /\ album_result.returned = "IndexError"

\* tracks on discs [2, 1] and no disc list: the fallback makes one disc, for
\* the disc number of the last track, and Mapper.album_info raises IndexError
Mapper_RaisesOnUnorderedTracks ==
    /\ album_result.op = "Mapper.album_info"
    /\ TrackDiscNumbers(album_result.arg) = <<2, 1>>
    /\ album_result.arg.discs = <<>>
    /\ album_result.returned = "IndexError"

\* a disc entry without tracks: PluginABC.album_info raises ValueError
PluginABC_RaisesOnEmptyDisc ==
    /\ album_result.op = "PluginABC.album_info"
    /\ TrackDiscNumbers(album_result.arg) = <<1>>
    /\ Len(album_result.arg.discs) = 1
    /\ album_result.arg.discs[1].disc_number = 2
    /\ album_result.returned = "ValueError"

\* a credit with neither a name nor an artist is skipped: the call returns
\* and no returned name is empty
NamelessCreditSkipped ==
    (ArtistsCalled /\ \E i \in 1..Len(artists_result.arg) : ~Named(artists_result.arg[i])) =>
        \A k \in 1..Len(artists_result.artists) : Truthy(artists_result.artists[k])

MapperCalled == album_result.op = "Mapper.album_info"

NoTrackHasSong(album) == \A i \in 1..Len(album.tracks) : album.tracks[i].song = <<>>

UsedDiscs(album) ==
    IF album.discs # <<>> THEN album.discs
    ELSE discs_fallback(album.tracks[Len(album.tracks)].disc_number)

DiscEntryMissing(album) ==
    \E i \in 1..Len(album.tracks) :
        album.tracks[i].disc_number > Len(UsedDiscs(album))

\* the entry at the place of the track's disc number is a Video disc
OnVideoPlace(album, i) ==
    UsedDiscs(album)[album.tracks[i].disc_number].media_type = VIDEO

WithAllSongs(album) ==
    [album EXCEPT !.tracks =
        [i \in 1..Len(album.tracks) |->
            IF album.tracks[i].song # <<>> THEN album.tracks[i]
            ELSE [album.tracks[i] EXCEPT !.song = <<[id |-> i, lyrics |-> <<>>]>>]]]

SongIds(album) ==
    {ToString(album.tracks[i].song[1].id) :
        i \in {j \in 1..Len(album.tracks) : album.tracks[j].song # <<>>}}

\* C14: a track entry without an embedded song is omitted and nothing else
\* changes: the album is mapped (or not) as the same album with a song in that
\* entry is, and the emitted tracks are the tracks emitted for that album less
\* the tracks of the entries without a song.
C14_MissingSongOnlySkipsTrack ==
    MapperCalled =>
        LET with_songs == Mapper_album_info(WithAllSongs(album_result.arg),
                              album_result.ignore_video_tracks,
                              album_result.include_featured_album_artists,
                              language_preference)
        IN  /\ album_result.returned = with_songs.returned
            /\ album_result.tracks =
                   SelectSeq(with_songs.tracks,
                             LAMBDA t : t.track_id \in SongIds(album_result.arg))
            /\ EmittedIds \subseteq SongIds(album_result.arg)

\* three entries, the second without a song: the album is mapped with the
\* first and the third track
C14_Witness ==
    /\ MapperCalled /\ album_result.returned = "AlbumInfo"
    /\ Len(album_result.arg.tracks) = 3
    /\ album_result.arg.tracks[2].song = <<>>
    /\ EmittedIds = {"1", "3"}
    /\ Len(album_result.tracks) = 2

MaxDiscNumber(album) == Max({album.tracks[i].disc_number : i \in 1..Len(album.tracks)})

\* the album has tracks and no disc list; the call used discs 1..max, all
\* named CD: it returned a record whose medium count is the largest disc
\* number of the track list and whose tracks are on the medium CD
DefaultDiscsUsed ==
    (album_result.arg.tracks # <<>> /\ album_result.arg.discs = <<>>) =>
        /\ album_result.returned = "AlbumInfo"
        /\ album_result.mediums = MaxDiscNumber(album_result.arg)
        /\ \A i \in 1..Len(album_result.tracks) :
               /\ album_result.tracks[i].media = "CD"
               /\ album_result.tracks[i].medium \in 1..album_result.mediums

\* C23: for an album without a disc list, Mapper.album_info uses discs
\* numbered 1 to the largest disc number of the track list, each named CD and
\* of type Audio, whatever the order of the track list.
C23_DefaultDiscSynthesis == MapperCalled => DefaultDiscsUsed

\* the same for PluginABC.album_info, when every disc number up to the
\* largest one has a track (a disc without tracks raises ValueError there)
PluginABC_DefaultDiscSynthesis ==
    (/\ album_result.op = "PluginABC.album_info"
     /\ album_result.arg.tracks # <<>>
     /\ \A d \in 1..MaxDiscNumber(album_result.arg) :
            TrackNumbersOn(album_result.arg.tracks, d) # {}) => DefaultDiscsUsed

\* Mapper.album_info, for track lists that end on their largest disc number
Mapper_DefaultDiscsWhenLastIsMax ==
    (MapperCalled /\ album_result.arg.tracks # <<>>
       /\ album_result.arg.tracks[Len(album_result.arg.tracks)].disc_number
              = MaxDiscNumber(album_result.arg)) => DefaultDiscsUsed

\* PluginABC.album_info serves tracks on discs [2, 1] without a disc list
PluginABC_DefaultDiscsUnordered ==
    /\ PluginABCReturned
    /\ TrackDiscNumbers(album_result.arg) = <<2, 1>>
    /\ album_result.arg.discs = <<>>
    /\ album_result.mediums = 2

\* every emitted track's medium total is the largest track number of the
\* input tracks on its disc
MediumTotalIsMaxTrackNumber ==
    \A i \in 1..Len(album_result.tracks) :
        album_result.tracks[i].medium_total
            = Max(TrackNumbersOn(album_result.arg.tracks, album_result.tracks[i].medium))

\* C24: for every track emitted by Mapper.album_info, the medium total is the
\* largest track number among the input tracks with the same disc number.
C24_MediumTotalIsMax == MapperReturned => MediumTotalIsMaxTrackNumber

\* the same for PluginABC.album_info, when each disc entry is at the place
\* of its disc number
PluginABC_MediumTotalIsMax ==
    (PluginABCReturned /\ DiscsAligned(album_result.arg)) => MediumTotalIsMaxTrackNumber

\* Mapper.album_info: the medium total is the number of tracks of the disc's
\* group, entries without a song included
Mapper_MediumTotalIsGroupLength ==
    MapperReturned =>
        \A i \in 1..Len(album_result.tracks) :
            \E k \in 1..Len(group_tracks_by_disc(album_result.arg.tracks)) :
                LET g == group_tracks_by_disc(album_result.arg.tracks)[k]
                IN  /\ g.disc_number = album_result.tracks[i].medium
                    /\ album_result.tracks[i].medium_total = Len(g.songs)

\* a single track numbered 2: Mapper.album_info gives the medium total 1
Mapper_MediumTotalWithGap ==
    /\ MapperReturned
    /\ Len(album_result.arg.tracks) = 1
    /\ album_result.arg.tracks[1].track_number = 2
    /\ Len(album_result.tracks) = 1
    /\ album_result.tracks[1].medium_index = 2
    /\ album_result.tracks[1].medium_total = 1

\* the same album under PluginABC.album_info: the medium total is 2
PluginABC_MediumTotalWithGap ==
    /\ PluginABCReturned
    /\ Len(album_result.arg.tracks) = 1
    /\ album_result.arg.tracks[1].track_number = 2
    /\ Len(album_result.tracks) = 1
    /\ album_result.tracks[1].medium_total = 2

\* the k-th emitted track has the index k
IndexIsRunningCounter ==
    \A k \in 1..Len(album_result.tracks) : album_result.tracks[k].index = k

\* C25: the index of the k-th track emitted by Mapper.album_info is k, a
\* counter over the whole album that a disc boundary does not reset, so no
\* two emitted tracks share an index.
C25_IndexRunsOverAlbum == MapperReturned => IndexIsRunningCounter

\* the same for PluginABC.album_info
PluginABC_IndexRunsOverAlbum == PluginABCReturned => IndexIsRunningCounter

\* the index of an emitted track is its track number on its disc
IndexIsTrackNumber ==
    AlbumReturned =>
        \A k \in 1..Len(album_result.tracks) :
            album_result.tracks[k].index = album_result.tracks[k].medium_index

\* one track on each of two Audio discs: both emitted tracks have the index 1
Mapper_IndexRestartsOnDisc ==
    /\ MapperReturned
    /\ TrackDiscNumbers(album_result.arg) = <<1, 2>>
    /\ Len(album_result.tracks) = 2
    /\ album_result.tracks[1].medium = 1 /\ album_result.tracks[1].index = 1
    /\ album_result.tracks[2].medium = 2 /\ album_result.tracks[2].index = 1

\* C26: the tracks that Mapper.album_info emits for one disc are in ascending
\* order of track number, whatever their order in the track list.
C26_AscendingWithinDisc ==
    MapperReturned =>
        \A i, j \in 1..Len(album_result.tracks) :
            (i < j /\ album_result.tracks[i].medium = album_result.tracks[j].medium) =>
                album_result.tracks[i].medium_index <= album_result.tracks[j].medium_index

\* the place in the track list of the entry an emitted track was made of
InputPlace(track) ==
    CHOOSE p \in 1..Len(album_result.arg.tracks) : ToString(p) = track.track_id

\* the tracks emitted for one disc are in the order of the track list
EmittedInInputOrderWithinDisc ==
    AlbumReturned =>
        \A i, j \in 1..Len(album_result.tracks) :
            (i < j /\ album_result.tracks[i].medium = album_result.tracks[j].medium) =>
                InputPlace(album_result.tracks[i]) < InputPlace(album_result.tracks[j])

\* track 2 listed before track 1 of the same disc: emitted as 2, 1
Mapper_EmitsInInputOrder ==
    /\ MapperReturned
    /\ Len(album_result.arg.tracks) = 2
    /\ album_result.arg.tracks[1].track_number = 2
    /\ album_result.arg.tracks[2].track_number = 1
    /\ Len(album_result.tracks) = 2
    /\ album_result.tracks[1].medium = album_result.tracks[2].medium
    /\ album_result.tracks[1].medium_index = 2
    /\ album_result.tracks[2].medium_index = 1

\* year, month and day of the album record are those of d
DateIs(d) ==
    /\ album_result.year = d.year
    /\ album_result.month = d.month
    /\ album_result.day = d.day

\* C27: the album record of a release date marked empty has no year, month
\* or day, also when the upstream date carries them; otherwise each of the
\* three is the upstream value, absent where that is absent.
C27_EmptyDateGivesNoDate ==
    MapperReturned =>
        IF album_result.arg.release_date.is_empty
        THEN DateIs([year |-> 0, month |-> 0, day |-> 0])
        ELSE DateIs(album_result.arg.release_date)

\* Mapper.album_info and PluginABC.album_info copy year, month and day,
\* marked empty or not
ReleaseDateCopied == AlbumReturned => DateIs(album_result.arg.release_date)

\* a date marked empty that carries 2020-05-17: the album record has it
Mapper_KeepsEmptyMarkedDate ==
    /\ MapperReturned
    /\ album_result.arg.release_date = [is_empty |-> TRUE, year |-> 2020, month |-> 5, day |-> 17]
    /\ album_result.year = 2020 /\ album_result.month = 5 /\ album_result.day = 17

\* the date a call was made with, as VocaDBPlugin.album_info maps it: nothing
\* of a date marked empty, the upstream values otherwise
VocaDBPlugin_EmptyDateGivesNoDate ==
    AlbumReturned =>
        LET d == album_result.arg.release_date
        IN  VocaDBPlugin_release_date(d) =
                IF d.is_empty THEN [year |-> 0, month |-> 0, day |-> 0]
                ELSE [year |-> d.year, month |-> d.month, day |-> d.day]

\* a date that is not marked empty and lacks the day: year and month only
Mapper_PartialDate ==
    /\ MapperReturned
    /\ album_result.arg.release_date = [is_empty |-> FALSE, year |-> 2020, month |-> 5, day |-> 0]
    /\ album_result.year = 2020 /\ album_result.month = 5 /\ album_result.day = 0

\* what the categoriser returns for the credits of the album
AlbumArtists(comp) ==
    get_album_artists(album_result.arg.artists, comp,
                      album_result.include_featured_album_artists)

\* C28: the various-artists flag of an album record is set exactly when the
\* disc type is Compilation or the categoriser's artist string is the VA
\* label; an album that is not a Compilation and has more than five main
\* artists is flagged.
C28_VaFlag ==
    MapperReturned =>
        LET comp == album_result.arg.disc_type = COMPILATION
        IN  /\ album_result.va <=> (comp \/ AlbumArtists(comp).artist = VA_NAME)
            /\ (~comp /\ Len(AlbumArtists(FALSE).main_artists) > 5) => album_result.va

\* C28 witness: an album of type Album with six main artists is flagged
C28_Witness ==
    /\ MapperReturned
    /\ album_result.arg.disc_type = "Album"
    /\ Len(AlbumArtists(FALSE).main_artists) = 6
    /\ album_result.artist = VA_NAME
    /\ album_result.va

\* an album of type Album with one main artist is not flagged
VaFlagNotSet ==
    /\ MapperReturned
    /\ album_result.arg.disc_type = "Album"
    /\ album_result.artist = "A"
    /\ ~album_result.va

\* a Compilation is flagged whatever its artist string
VaFlagFromDiscType ==
    /\ MapperReturned
    /\ album_result.arg.disc_type = COMPILATION
    /\ album_result.artist # VA_NAME
    /\ album_result.va

\* the ids of the songs of the input tracks that have a song and whose disc
\* is not an ignored Video disc
ExpectedIds ==
    {ToString(album_result.arg.tracks[i].song[1].id) :
        i \in {j \in 1..Len(album_result.arg.tracks) :
                 /\ album_result.arg.tracks[j].song # <<>>
                 /\ ~(album_result.ignore_video_tracks
                        /\ OnVideoPlace(album_result.arg, j))}}

EachExpectedTrackOnce ==
    /\ EmittedIds = ExpectedIds
    /\ Len(album_result.tracks) = Cardinality(ExpectedIds)

\* C30: every input track that has a song and is not on an ignored disc is
\* emitted exactly once by Mapper.album_info, in whatever order the track
\* list is, also when the tracks of one disc are not adjacent.
C30_NoTrackLost == MapperReturned => EachExpectedTrackOnce

\* the tracks of each disc are adjacent in the track list
Adjacent(album) ==
    \A i, j \in 1..Len(album.tracks) :
        (i < j /\ album.tracks[i].disc_number = album.tracks[j].disc_number) =>
            \A m \in i..j : album.tracks[m].disc_number = album.tracks[i].disc_number

\* Mapper.album_info loses no track of a list in which the tracks of each
\* disc are adjacent
Mapper_NoTrackLostWhenAdjacent ==
    (MapperReturned /\ Adjacent(album_result.arg)) => EachExpectedTrackOnce

\* tracks on discs [1, 2, 1], each with a song, and two Audio discs: the
\* first track is not emitted
Mapper_LosesEarlierRun ==
    /\ MapperReturned
    /\ TrackDiscNumbers(album_result.arg) = <<1, 2, 1>>
    /\ SongIds(album_result.arg) = {"1", "2", "3"}
    /\ \A k \in 1..Len(album_result.arg.discs) :
           album_result.arg.discs[k].media_type = AUDIO
    /\ EmittedIds = {"2", "3"}
    /\ Len(album_result.tracks) = 2

\* PluginABC.album_info, which does not group, emits all three
PluginABC_KeepsEarlierRun ==
    /\ PluginABCReturned
    /\ TrackDiscNumbers(album_result.arg) = <<1, 2, 1>>
    /\ SongIds(album_result.arg) = {"1", "2", "3"}
    /\ EmittedIds = {"1", "2", "3"}

(***************************************************************************)
(* Properties of the ASIN extraction                                       *)
(***************************************************************************)
AsinCalled == asin_result.op # "none"

\* a link the claim lets count: not disabled, description "Amazon" or
\* "Amazon (LE|RE|JP|US)...", and a /dp/ segment in the URL
CountsForAsin(link) ==
    /\ ~link.disabled
    /\ link.description = AMAZON
       \/ \E code \in CountryCodes :
              StartsWith(link.description, AMAZON \o <<" ", "(">> \o code \o <<")">>)
    /\ asin_search(link.url) # <<>>

ExpectedAsin(links) ==
    IF \E i \in 1..Len(links) : CountsForAsin(links[i])
    THEN asin_search(links[CHOOSE i \in 1..Len(links) :
                               /\ CountsForAsin(links[i])
                               /\ \A j \in 1..(i - 1) : ~CountsForAsin(links[j])].url)
    ELSE <<>>

ExampleLink(disabled) ==
    [disabled |-> disabled, description |-> AMAZON \o <<" ", "(", "J", "P", ")">>,
     url |-> UrlWithRef]

ExampleAsin ==
    <<"B", "0", "0", "0", "A", "B", "C", "1", "2", "3">>

AsinAsClaimed ==
    /\ asin_result.asin = ExpectedAsin(asin_result.arg)
    /\ asin_result.arg = <<ExampleLink(FALSE)>> => asin_result.asin = ExampleAsin
    /\ asin_result.arg = <<ExampleLink(TRUE)>> => asin_result.asin = <<>>

\* C11 as stated: the ASIN is the /dp/ segment of the first link that is not
\* disabled, whose description matches Amazon( \((LE|RE|JP|US)\).*)?$ and
\* whose URL has a /dp/ segment; the link "Amazon (JP)" with URL
\* https://x/dp/B000ABC123/ref gives B000ABC123, and nothing when disabled.
C11_AsinExtraction == AsinCalled => AsinAsClaimed

\* what the loop of PluginABC.album_info, whose pattern escapes the
\* parentheses, returns
PluginABC_AsinExtraction ==
    asin_result.op = "PluginABC.album_info" => AsinAsClaimed

\* utils.get_asin finds no ASIN in the example link
GetAsin_ExampleGivesNone ==
    /\ asin_result.op = "get_asin"
    /\ asin_result.arg = <<ExampleLink(FALSE)>>
    /\ asin_result.asin = <<>>

\* PluginABC finds the ASIN of the example link
PluginABC_ExampleGivesAsin ==
    /\ asin_result.op = "PluginABC.album_info"
    /\ asin_result.arg = <<ExampleLink(FALSE)>>
    /\ asin_result.asin = ExampleAsin

(***************************************************************************)
(* Properties of the lookups by id                                         *)
(***************************************************************************)
LookupCalled == lookup_result.op # "none"

\* the complete record the mapper makes of the response
MappedRecord ==
    IF lookup_result.op = "album_for_id"
    THEN Mapper_album_info(lookup_result.arg.response.album, ignore_video_tracks, FALSE,
                           language_preference)
    ELSE track_info(lookup_result.arg.response.song, language_preference,
                    0, None, 0, 0, 0)

\* C15: a lookup returns None, without a GET, when the id is not numeric; it
\* performs at most one GET; it returns None when that GET ends in an HTTP
\* error; and a record it returns is the complete mapping of the response.
C15_LookupGivesNoneOrRecord ==
    LookupCalled =>
        /\ ~isnumeric(lookup_result.arg.id) =>
               /\ lookup_result.gets = 0
               /\ lookup_result.returned = "None" /\ lookup_result.record = <<>>
        /\ lookup_result.gets <= 1
        /\ (lookup_result.gets = 1 /\ lookup_result.arg.response.status = "HTTPError") =>
               lookup_result.returned = "None" /\ lookup_result.record = <<>>
        /\ lookup_result.record # <<>> =>
               /\ lookup_result.gets = 1
               /\ lookup_result.arg.response.status = "ok"
               /\ lookup_result.record = <<MappedRecord>>
        /\ lookup_result.returned = "None" => lookup_result.record = <<>>

\* a numeric id and an HTTP error: one GET and None
C15_Witness ==
    /\ lookup_result.op = "album_for_id"
    /\ lookup_result.arg.id = <<"1", "2">>
    /\ lookup_result.arg.response.status = "HTTPError"
    /\ lookup_result.gets = 1
    /\ lookup_result.returned = "None"

\* an id that isnumeric accepts and int() rejects: ValueError before any GET
LookupRaisesOnFractionId ==
    /\ LookupCalled
    /\ lookup_result.arg.id = <<"U+00BD">>
    /\ lookup_result.returned = "ValueError" /\ lookup_result.gets = 0

(***************************************************************************)
(* Properties of the genre aggregator                                      *)
(***************************************************************************)
GenresCalled == genres_result.op = "get_genres"

IsGenre(tags, i) == tags[i].category_name = GENRES /\ tags[i].name # <<>>
GenreIndexes(tags) == {i \in 1..Len(tags) : IsGenre(tags, i)}

\* tag i comes before tag j: a higher count, or the same count and earlier in the input
Before(tags, i, j) ==
    \/ tags[i].count > tags[j].count
    \/ tags[i].count = tags[j].count /\ i < j

\* the genre tags in the claimed order: the k-th is the one with k-1 genre tags before it
ExpectedGenreOrder(tags) ==
    LET G == GenreIndexes(tags)
    IN  [k \in 1..Cardinality(G) |->
            CHOOSE i \in G : Cardinality({j \in G : Before(tags, j, i)}) = k - 1]

ExpectedGenres(tags) ==
    LET order == ExpectedGenreOrder(tags)
    IN  Join([k \in 1..Len(order) |-> Title(tags[order[k]].name)], <<";", " ">>)

\* C10: get_genres returns the title-cased names of exactly the tags of
\* category Genres with a non-empty name, joined with "; ", by count
\* descending and input order among equal counts; None when there is no such
\* tag; tags of other categories never contribute.
C10_GenresAggregate ==
    GenresCalled =>
        IF GenreIndexes(genres_result.arg) = {}
        THEN genres_result.none
        ELSE /\ ~genres_result.none
             /\ genres_result.text = ExpectedGenres(genres_result.arg)

\* C10 witness: two genre tags of equal count precede, in the output, nothing
\* but each other in input order, while a tag of another category with the
\* highest count is left out
C10_Witness ==
    /\ GenresCalled
    /\ Len(genres_result.arg) = 3
    /\ genres_result.arg[1].category_name # GENRES
    /\ genres_result.arg[1].count > genres_result.arg[2].count
    /\ genres_result.arg[2].count = genres_result.arg[3].count
    /\ genres_result.arg[2].name = <<"l", "o", "-", "f", "i">>
    /\ genres_result.arg[3].name = <<"R", "O", "C", "K">>
    /\ IsGenre(genres_result.arg, 2) /\ IsGenre(genres_result.arg, 3)
    /\ genres_result.text =
           <<"L", "o", "-", "F", "i", ";", " ", "R", "o", "c", "k">>

=============================================================================
